---- MODULE Spec2Model ----
(***************************************************************************)
(* Aetheria backend: render analysis and material matching.                *)
(*                                                                         *)
(* The model covers the colour utilities and the material matcher of       *)
(* backend/material_db.py, the response parser of backend/ai_vision.py,    *)
(* the palette extractor and the analyze_render route of backend/app.py    *)
(* and the statistics extractor of backend/image_stats.py.                 *)
(*                                                                         *)
(* Text is a sequence of one-character strings (colours) or of lexical     *)
(* tokens (response payloads).  Floating-point quantities are kept as      *)
(* exact integers: squared distances are scaled by 512, bias factors are   *)
(* in tenths, statistics are in tenths.                                    *)
(***************************************************************************)
EXTENDS Integers, Sequences, FiniteSets, TLC

VARIABLES
    database,   \* the module-level MATERIAL_DATABASE dictionary
    PIL_OK,     \* app.py: whether the Pillow import succeeded
    trimmed,    \* whether the installed Pillow trims getpalette() to the used entries
    pc,         \* "idle": no call in progress; "done": a call has returned or raised
    op,         \* the operation of the last call
    arg,        \* its arguments
    ret,        \* its outcome: [raised |-> exception name or "none", value |-> ...]
    frames,     \* material_db.py under several callers: each caller's call in progress
    heap        \* the dicts those calls created, by address

vars == <<database, PIL_OK, trimmed, pc, op, arg, ret, frames, heap>>

(***************************************************************************)
(* Bounds of the model.                                                    *)
(***************************************************************************)
MaxHexLen == 7      \* longest colour string body enumerated (after the '#'s)
MaxHashes == 2      \* most leading '#' characters enumerated

None == "None"

(***************************************************************************)
(* Python string and sequence helpers.                                     *)
(***************************************************************************)
Min(a, b) == IF a < b THEN a ELSE b
Max(a, b) == IF a < b THEN b ELSE a

\* s[i:j] with 0-based Python indices, 0 <= i <= j; out-of-range is clipped.
Slice(s, i, j) ==
    LET lo == Min(i, Len(s))
        hi == Min(j, Len(s))
    IN  IF hi <= lo THEN <<>> ELSE SubSeq(s, lo + 1, hi)

\* str.lstrip(chars) for a one-character argument.
RECURSIVE LStrip(_, _)
LStrip(s, ch) ==
    IF s # <<>> /\ Head(s) = ch THEN LStrip(Tail(s), ch) ELSE s

RECURSIVE RStrip(_, _)
RStrip(s, ch) ==
    IF s # <<>> /\ s[Len(s)] = ch THEN RStrip(SubSeq(s, 1, Len(s) - 1), ch) ELSE s

HexDigits ==
    {"0", "1", "2", "3", "4", "5", "6", "7", "8", "9",
     "a", "b", "c", "d", "e", "f", "A", "B", "C", "D", "E", "F"}

HexVal(ch) ==
    CASE ch = "0" -> 0  [] ch = "1" -> 1  [] ch = "2" -> 2  [] ch = "3" -> 3
      [] ch = "4" -> 4  [] ch = "5" -> 5  [] ch = "6" -> 6  [] ch = "7" -> 7
      [] ch = "8" -> 8  [] ch = "9" -> 9
      [] ch \in {"a", "A"} -> 10  [] ch \in {"b", "B"} -> 11
      [] ch \in {"c", "C"} -> 12  [] ch \in {"d", "D"} -> 13
      [] ch \in {"e", "E"} -> 14  [] ch \in {"f", "F"} -> 15

LowerHexChar(n) ==
    <<"0", "1", "2", "3", "4", "5", "6", "7", "8", "9",
      "a", "b", "c", "d", "e", "f">>[n + 1]

\* str.lower() on one character of a colour string.
LowerChar(ch) ==
    CASE ch = "A" -> "a" [] ch = "B" -> "b" [] ch = "C" -> "c"
      [] ch = "D" -> "d" [] ch = "E" -> "e" [] ch = "F" -> "f"
      [] ch = "G" -> "g"
      [] OTHER -> ch

LowerStr(s) == [i \in 1..Len(s) |-> LowerChar(s[i])]

RECURSIVE DigitsValue(_, _)
DigitsValue(s, acc) ==
    IF s = <<>> THEN acc ELSE DigitsValue(Tail(s), acc * 16 + HexVal(Head(s)))

(***************************************************************************)
(* int(text, 16) as hex_to_rgb uses it, on slices of at most two           *)
(* characters: surrounding whitespace is stripped, one sign is accepted,   *)
(* and what remains must be one or more hexadecimal digits.  (A "0x"       *)
(* prefix or an inner underscore needs three characters.)                  *)
(***************************************************************************)
PyInt16(text) ==
    LET t    == RStrip(LStrip(text, " "), " ")
        neg  == t # <<>> /\ Head(t) = "-"
        body == IF t # <<>> /\ Head(t) \in {"+", "-"} THEN Tail(t) ELSE t
    IN  IF body = <<>> \/ \E i \in 1..Len(body) : body[i] \notin HexDigits
        THEN [raised |-> "ValueError"]
        ELSE [raised |-> "none",
              value  |-> IF neg THEN 0 - DigitsValue(body, 0) ELSE DigitsValue(body, 0)]

hex_to_rgb(hex_color) ==
    LET h == LStrip(hex_color, "#")
        c == [i \in 1..3 |-> PyInt16(Slice(h, 2 * (i - 1), 2 * (i - 1) + 2))]
    IN  IF \E i \in 1..3 : c[i].raised # "none"
        THEN [raised |-> "ValueError"]
        ELSE [raised |-> "none", value |-> <<c[1].value, c[2].value, c[3].value>>]

\* format(n, "02x"): lower-case hexadecimal, zero-padded to width 2; the sign
\* of a negative number counts towards the width.
RECURSIVE ToHex(_)
ToHex(n) == IF n < 16 THEN <<LowerHexChar(n)>> ELSE ToHex(n \div 16) \o <<LowerHexChar(n % 16)>>

\* Mutant of Format02x: "x" where the code has "02x" (no zero padding).
Format02x_NoPad(n) ==
    IF n < 0 THEN <<"-">> \o ToHex(0 - n) ELSE ToHex(n)

Format02x(n) ==
    IF n < 0 THEN <<"-">> \o ToHex(0 - n)
    ELSE IF n < 16 THEN <<"0">> \o ToHex(n)
    ELSE ToHex(n)

rgb_to_hex(rgb) ==
    <<"#">> \o Format02x(rgb[1]) \o Format02x(rgb[2]) \o Format02x(rgb[3])

(***************************************************************************)
(* color_distance.  The float it returns is the square root of             *)
(*   (2 + rm/256) dr^2 + 4 dg^2 + (2 + (255 - rm)/256) db^2,               *)
(* rm = (r1 + r2)/2.  DistSq512 is that sum times 512, an exact integer.   *)
(***************************************************************************)
\* Mutant of DistSq512: r_mean is the red of the first colour alone.
DistSq512_FirstRed(rgb1, rgb2) ==
    LET rsum   == 2 * rgb1[1]
        r_diff == rgb1[1] - rgb2[1]
        g_diff == rgb1[2] - rgb2[2]
        b_diff == rgb1[3] - rgb2[3]
    IN  (1024 + rsum) * r_diff * r_diff
        + 2048 * g_diff * g_diff
        + (1024 + 510 - rsum) * b_diff * b_diff

DistSq512(rgb1, rgb2) ==
    LET rsum   == rgb1[1] + rgb2[1]
        r_diff == rgb1[1] - rgb2[1]
        g_diff == rgb1[2] - rgb2[2]
        b_diff == rgb1[3] - rgb2[3]
    IN  (1024 + rsum) * r_diff * r_diff
        + 2048 * g_diff * g_diff
        + (1024 + 510 - rsum) * b_diff * b_diff

color_distance(color1, color2) ==
    LET rgb1 == hex_to_rgb(color1)
        rgb2 == hex_to_rgb(color2)
    IN  IF rgb1.raised # "none" \/ rgb2.raised # "none"
        THEN [raised |-> "ValueError"]
        ELSE [raised |-> "none", value |-> DistSq512(rgb1.value, rgb2.value)]

MATERIAL_DATABASE ==
  <<
    [key |-> "glass_blue",
     keywords |-> <<"glass", "window", "facade">>,
     colors |-> << <<"#", "8", "7", "C", "E", "E", "B">>,
                   <<"#", "4", "6", "8", "2", "B", "4">>,
                   <<"#", "5", "F", "9", "E", "A", "0">>,
                   <<"#", "B", "0", "E", "0", "E", "6">> >>,
     textures |-> <<[name |-> "Blue Glass Facade",
                      texture_url |-> "https://dl.polyhaven.com/file/ph-assets/Textures/jpg/2k/glass_window/glass_window_diff_2k.jpg",
                      suggestion |-> "Reflective Glass",
                      suggestion_url |-> "https://dl.polyhaven.com/file/ph-assets/Textures/jpg/2k/glass_window/glass_window_diff_2k.jpg",
                      link |-> "https://polyhaven.com/textures/glass"]>>],
    [key |-> "concrete_gray",
     keywords |-> <<"concrete", "wall", "building">>,
     colors |-> << <<"#", "8", "0", "8", "0", "8", "0">>,
                   <<"#", "A", "9", "A", "9", "A", "9">>,
                   <<"#", "6", "9", "6", "9", "6", "9">>,
                   <<"#", "B", "E", "B", "E", "B", "E">> >>,
     textures |-> <<[name |-> "Concrete Wall",
                      texture_url |-> "https://dl.polyhaven.com/file/ph-assets/Textures/jpg/2k/concrete_wall_006/concrete_wall_006_diff_2k.jpg",
                      suggestion |-> "Smooth Concrete",
                      suggestion_url |-> "https://dl.polyhaven.com/file/ph-assets/Textures/jpg/2k/concrete_floor_02/concrete_floor_02_diff_2k.jpg",
                      link |-> "https://polyhaven.com/a/concrete_floor_02"]>>],
    [key |-> "metal_gray",
     keywords |-> <<"metal", "steel", "aluminum">>,
     colors |-> << <<"#", "C", "0", "C", "0", "C", "0">>,
                   <<"#", "B", "8", "B", "8", "B", "8">>,
                   <<"#", "D", "3", "D", "3", "D", "3">> >>,
     textures |-> <<[name |-> "Brushed Metal",
                      texture_url |-> "https://dl.polyhaven.com/file/ph-assets/Textures/jpg/2k/metal_plate/metal_plate_diff_2k.jpg",
                      suggestion |-> "Aluminum Panel",
                      suggestion_url |-> "https://dl.polyhaven.com/file/ph-assets/Textures/jpg/2k/metal_plate/metal_plate_diff_2k.jpg",
                      link |-> "https://polyhaven.com/a/metal_plate"]>>],
    [key |-> "wood_brown",
     keywords |-> <<"wood", "timber", "floor">>,
     colors |-> << <<"#", "8", "B", "4", "5", "1", "3">>,
                   <<"#", "A", "0", "5", "2", "2", "D">>,
                   <<"#", "D", "2", "6", "9", "1", "E">>,
                   <<"#", "C", "D", "8", "5", "3", "F">> >>,
     textures |-> <<[name |-> "Wood Planks",
                      texture_url |-> "https://dl.polyhaven.com/file/ph-assets/Textures/jpg/2k/wood_floor_deck/wood_floor_deck_diff_2k.jpg",
                      suggestion |-> "Walnut Veneer",
                      suggestion_url |-> "https://dl.polyhaven.com/file/ph-assets/Textures/jpg/2k/walnut_veneer/walnut_veneer_diff_2k.jpg",
                      link |-> "https://polyhaven.com/a/walnut_veneer"]>>],
    [key |-> "brick_red",
     keywords |-> <<"brick", "masonry">>,
     colors |-> << <<"#", "B", "2", "2", "2", "2", "2">>,
                   <<"#", "8", "B", "0", "0", "0", "0">>,
                   <<"#", "A", "5", "2", "A", "2", "A">>,
                   <<"#", "C", "D", "5", "C", "5", "C">> >>,
     textures |-> <<[name |-> "Red Brick",
                      texture_url |-> "https://dl.polyhaven.com/file/ph-assets/Textures/jpg/2k/brick_wall_001/brick_wall_001_diff_2k.jpg",
                      suggestion |-> "Weathered Brick",
                      suggestion_url |-> "https://dl.polyhaven.com/file/ph-assets/Textures/jpg/2k/brick_wall_001/brick_wall_001_diff_2k.jpg",
                      link |-> "https://polyhaven.com/a/brick_wall_001"]>>],
    [key |-> "plaster_white",
     keywords |-> <<"plaster", "wall", "ceiling">>,
     colors |-> << <<"#", "F", "F", "F", "F", "F", "F">>,
                   <<"#", "F", "5", "F", "5", "F", "5">>,
                   <<"#", "F", "F", "F", "A", "F", "A">>,
                   <<"#", "F", "0", "F", "0", "F", "0">> >>,
     textures |-> <<[name |-> "White Plaster",
                      texture_url |-> "https://dl.polyhaven.com/file/ph-assets/Textures/jpg/2k/plaster_02/plaster_02_diff_2k.jpg",
                      suggestion |-> "Rough Plaster",
                      suggestion_url |-> "https://dl.polyhaven.com/file/ph-assets/Textures/jpg/2k/white_rough_plaster/white_rough_plaster_diff_2k.jpg",
                      link |-> "https://polyhaven.com/a/white_rough_plaster"]>>],
    [key |-> "grass_green",
     keywords |-> <<"grass", "lawn", "vegetation">>,
     colors |-> << <<"#", "2", "2", "8", "B", "2", "2">>,
                   <<"#", "3", "2", "C", "D", "3", "2">>,
                   <<"#", "0", "0", "F", "F", "0", "0">>,
                   <<"#", "7", "C", "F", "C", "0", "0">> >>,
     textures |-> <<[name |-> "Grass Ground",
                      texture_url |-> "https://dl.polyhaven.com/file/ph-assets/Textures/jpg/2k/grass_001/grass_001_diff_2k.jpg",
                      suggestion |-> "Natural Grass",
                      suggestion_url |-> "https://dl.polyhaven.com/file/ph-assets/Textures/jpg/2k/grass_001/grass_001_diff_2k.jpg",
                      link |-> "https://polyhaven.com/a/grass_001"]>>],
    [key |-> "sky_blue",
     keywords |-> <<"sky", "atmosphere">>,
     colors |-> << <<"#", "8", "7", "C", "E", "E", "B">>,
                   <<"#", "0", "0", "B", "F", "F", "F">>,
                   <<"#", "1", "E", "9", "0", "F", "F">>,
                   <<"#", "6", "4", "9", "5", "E", "D">> >>,
     textures |-> <<>>],
    [key |-> "marble_white",
     keywords |-> <<"marble", "stone">>,
     colors |-> << <<"#", "F", "8", "F", "8", "F", "F">>,
                   <<"#", "F", "F", "F", "A", "F", "0">>,
                   <<"#", "F", "A", "F", "0", "E", "6">> >>,
     textures |-> <<[name |-> "White Marble",
                      texture_url |-> "https://dl.polyhaven.com/file/ph-assets/Textures/jpg/2k/marble_01/marble_01_diff_2k.jpg",
                      suggestion |-> "Carrara Marble",
                      suggestion_url |-> "https://dl.polyhaven.com/file/ph-assets/Textures/jpg/2k/marble_01/marble_01_diff_2k.jpg",
                      link |-> "https://polyhaven.com/a/marble_01"]>>],
    [key |-> "fabric_neutral",
     keywords |-> <<"fabric", "textile", "upholstery">>,
     colors |-> << <<"#", "F", "5", "F", "5", "D", "C">>,
                   <<"#", "F", "A", "E", "B", "D", "7">>,
                   <<"#", "F", "F", "E", "4", "C", "4">>,
                   <<"#", "D", "E", "B", "8", "8", "7">> >>,
     textures |-> <<[name |-> "Fabric Texture",
                      texture_url |-> "https://dl.polyhaven.com/file/ph-assets/Textures/jpg/2k/fabric_pattern_07/fabric_pattern_07_col_1_2k.jpg",
                      suggestion |-> "Woven Fabric",
                      suggestion_url |-> "https://dl.polyhaven.com/file/ph-assets/Textures/jpg/2k/fabric_pattern_05/fabric_pattern_05_col_01_2k.jpg",
                      link |-> "https://polyhaven.com/a/fabric_pattern_05"]>>]
  >>

(***************************************************************************)
(* find_best_material_match.  position_y is in hundredths (0.3 is 30).     *)
(* The loop compares distance * bias; the model compares the squares,      *)
(* DistSq512 * bias^2 with the bias in tenths, as an exact two-limb number *)
(* so that the product stays within the integers TLC computes with.        *)
(***************************************************************************)
Limb == 2 ^ 16

\* Mutant of PositionBias: the boundaries 0.3 and 0.7 belong to the outer bands.
PositionBias_OuterBoundaries(category, position_y) ==
    IF position_y <= 30 /\ category \in {"sky_blue", "plaster_white"}
    THEN 7
    ELSE IF position_y >= 70 /\ category \in {"grass_green", "wood_brown", "concrete_gray"}
    THEN 7
    ELSE IF 30 < position_y /\ position_y < 70
            /\ category \in {"glass_blue", "concrete_gray", "brick_red"}
    THEN 8
    ELSE 10

PositionBias(category, position_y) ==
    IF position_y < 30 /\ category \in {"sky_blue", "plaster_white"}
    THEN 7
    ELSE IF position_y > 70 /\ category \in {"grass_green", "wood_brown", "concrete_gray"}
    THEN 7
    ELSE IF 30 <= position_y /\ position_y <= 70
            /\ category \in {"glass_blue", "concrete_gray", "brick_red"}
    THEN 8
    ELSE 10

\* d512 * bias * bias as [inf, hi, lo], value hi * Limb + lo with 0 <= lo < Limb.
Biased(d512, bias) ==
    LET m  == bias * bias
        lm == (d512 % Limb) * m
    IN  [inf |-> FALSE, hi |-> (d512 \div Limb) * m + (lm \div Limb), lo |-> lm % Limb]

\* distance < best_distance; best_distance starts as float('inf').
Infinity == [inf |-> TRUE, hi |-> 0, lo |-> 0]

\* Mutant of Closer: "<=" where the code has "<" (the last pair wins a tie).
Closer_NotStrict(distance, best_distance) ==
    \/ best_distance.inf
    \/ /\ ~best_distance.inf
       /\ \/ distance.hi < best_distance.hi
          \/ distance.hi = best_distance.hi /\ distance.lo <= best_distance.lo

Closer(distance, best_distance) ==
    \/ best_distance.inf
    \/ /\ ~best_distance.inf
       /\ \/ distance.hi < best_distance.hi
          \/ distance.hi = best_distance.hi /\ distance.lo < best_distance.lo

\* The (category, reference colour) pairs in the order the two loops visit them.
RECURSIVE CatalogPairs(_, _)
CatalogPairs(db, i) ==
    IF i > Len(db) THEN <<>>
    ELSE [j \in 1..Len(db[i].colors) |-> [cat |-> i, ref_color |-> db[i].colors[j]]]
         \o CatalogPairs(db, i + 1)

\* The biased distance the loop body computes for one pair.
PairDistance(db, pair, rgb, position_y) ==
    Biased(DistSq512(rgb, hex_to_rgb(pair.ref_color).value),
           PositionBias(db[pair.cat].key, position_y))

\* The loops over the whole catalog: the index of the pair that set
\* best_distance last (0: none did).  A pair replaces the best only when
\* its distance is strictly smaller.
\* Mutant of ScanPairs: the first pair is kept whatever follows.
ScanPairs_KeepFirst(dist, n, best) == IF Len(dist) = 0 THEN 0 ELSE 1

RECURSIVE ScanPairs(_, _, _)
ScanPairs(dist, n, best) ==
    IF n > Len(dist) THEN best
    ELSE IF Closer(dist[n], IF best = 0 THEN Infinity ELSE dist[best])
    THEN ScanPairs(dist, n + 1, n)
    ELSE ScanPairs(dist, n + 1, best)

\* str.replace('_', ' ').title() of a category key.
Humanize(key) ==
    CASE key = "glass_blue"     -> "Glass Blue"
      [] key = "concrete_gray"  -> "Concrete Gray"
      [] key = "metal_gray"     -> "Metal Gray"
      [] key = "wood_brown"     -> "Wood Brown"
      [] key = "brick_red"      -> "Brick Red"
      [] key = "plaster_white"  -> "Plaster White"
      [] key = "grass_green"    -> "Grass Green"
      [] key = "sky_blue"       -> "Sky Blue"
      [] key = "marble_white"   -> "Marble White"
      [] key = "fabric_neutral" -> "Fabric Neutral"

find_best_material_match(db, hex_color, position_y) ==
    LET rgb == hex_to_rgb(hex_color)
    IN  IF Len(db) > 0 /\ rgb.raised # "none"
        THEN \* color_distance raises in the first iteration
             [raised |-> "ValueError"]
        ELSE
        LET pairs  == CatalogPairs(db, 1)
            dist   == [n \in 1..Len(pairs) |-> PairDistance(db, pairs[n], rgb.value, position_y)]
            winner == ScanPairs(dist, 1, 0)
            best   == IF winner = 0
                      THEN [best_category |-> None, best_match |-> 0]
                      ELSE [best_category |-> db[pairs[winner].cat].key,
                            best_match    |-> pairs[winner].cat]
        IN  IF best.best_match # 0 /\ db[best.best_match].textures # <<>>
            THEN LET texture == db[best.best_match].textures[1]
                 IN  [raised |-> "none",
                      value  |-> [name           |-> texture.name,
                                  texture_url    |-> texture.texture_url,
                                  suggestion     |-> texture.suggestion,
                                  suggestion_url |-> texture.suggestion_url,
                                  link           |-> texture.link,
                                  hex            |-> hex_color,
                                  category       |-> best.best_category]]
            ELSE [raised |-> "none",
                  value  |-> [name     |-> IF best.best_category # None
                                           THEN Humanize(best.best_category)
                                           ELSE "Unknown Material",
                              hex      |-> hex_color,
                              category |-> IF best.best_category # None
                                           THEN best.best_category
                                           ELSE "unknown"]]

(***************************************************************************)
(* ai_vision.py: the response text and the Python values decoded from it.  *)
(*                                                                         *)
(* A response text is a sequence of lexical tokens: punctuation, newline,  *)
(* a double-quoted string, a numeral, a JSON literal, or a bare word of    *)
(* prose.  Blanks between tokens are implicit.  No quoted string of the    *)
(* model holds a bracket, a colon or a newline.                            *)
(***************************************************************************)
Tok(k, v) == [k |-> k, v |-> v]
TPunct(ch) == Tok("punct", ch)
TNewline   == Tok("nl", "")
TStr(s)    == Tok("str", s)
TNum(s)    == Tok("num", s)
TLit(s)    == Tok("lit", s)
TWord(s)   == Tok("word", s)

PyStr(s)   == [t |-> "str", v |-> s]
PyInt(n)   == [t |-> "int", n |-> n]
PyFloat(s) == [t |-> "float", v |-> s]
PyBool(b)  == [t |-> "bool", b |-> b]
PyNone     == [t |-> "NoneType"]
PyList(items)      == [t |-> "list", items |-> items]
PyDict(keys, vals) == [t |-> "dict", keys |-> keys, vals |-> vals]
\* The text a str.split() piece consists of.
PyText(toks)       == [t |-> "str", toks |-> toks]

\* The numerals of the model and the numbers they denote.
IsFloatNumeral(s) == s \in {"12.7"}

NumeralInt(s) ==
    CASE s = "5" -> 5 [] s = "7" -> 7 [] s = "30" -> 30 [] s = "40" -> 40

\* int(float): truncation towards zero.
FloatTrunc(s) == CASE s = "12.7" -> 12

\* int(str): the decimal integer the text spells, or ValueError.
StrToInt(s) ==
    CASE s = "30" -> [raised |-> "none", value |-> 30]
      [] s = "40" -> [raised |-> "none", value |-> 40]
      [] OTHER    -> [raised |-> "ValueError"]

\* int(v) for a decoded value.
PyIntOf(v) ==
    CASE v.t = "int"   -> [raised |-> "none", value |-> v.n]
      [] v.t = "float" -> [raised |-> "none", value |-> FloatTrunc(v.v)]
      [] v.t = "bool"  -> [raised |-> "none", value |-> IF v.b THEN 1 ELSE 0]
      [] v.t = "str"   -> StrToInt(v.v)
      [] OTHER         -> [raised |-> "TypeError"]

\* str.lower() on the texts of the model.
LowerText(s) ==
    CASE s = "Glass"      -> "glass"
      [] s = "SKY"        -> "sky"
      [] s = "Wood"       -> "wood"
      [] s = "Glass Wall" -> "glass wall"
      [] s = "The"        -> "the"
      [] s = "Street"     -> "street"
      [] OTHER            -> s

\* The keywords of parse_ai_response that occur in a lower-case text.
KeywordsIn(s) ==
    CASE s \in {"glass", "glass wall"} -> {"glass"}
      [] s = "wood"   -> {"wood"}
      [] s = "brick"  -> {"brick"}
      [] s = "metal"  -> {"metal"}
      [] s = "sky"    -> {"sky"}
      [] s = "street" -> {"tree"}
      [] OTHER        -> {}

\* dict: `key in d` and d.get(key, default); a repeated key keeps its last value.
DictHas(d, key) == \E i \in 1..Len(d.keys) : d.keys[i] = key

DictGet(d, key, default) ==
    IF DictHas(d, key)
    THEN d.vals[CHOOSE i \in 1..Len(d.keys) :
                    d.keys[i] = key /\ \A j \in (i + 1)..Len(d.keys) : d.keys[j] # key]
    ELSE default

(***************************************************************************)
(* json.loads on a token sequence (newlines are whitespace).               *)
(***************************************************************************)
JsonFail == [ok |-> FALSE]

RECURSIVE JsonValue(_, _)
RECURSIVE JsonItems(_, _, _)
RECURSIVE JsonMembers(_, _, _, _)

JsonValue(toks, p) ==
    IF p > Len(toks) THEN JsonFail
    ELSE LET tok == toks[p]
         IN  CASE tok.k = "str" -> [ok |-> TRUE, val |-> PyStr(tok.v), pos |-> p + 1]
               [] tok.k = "num" ->
                    [ok |-> TRUE,
                     val |-> IF IsFloatNumeral(tok.v) THEN PyFloat(tok.v)
                             ELSE PyInt(NumeralInt(tok.v)),
                     pos |-> p + 1]
               [] tok.k = "lit" ->
                    [ok |-> TRUE,
                     val |-> IF tok.v = "null" THEN PyNone ELSE PyBool(tok.v = "true"),
                     pos |-> p + 1]
               [] tok = TPunct("[") ->
                    IF p + 1 <= Len(toks) /\ toks[p + 1] = TPunct("]")
                    THEN [ok |-> TRUE, val |-> PyList(<<>>), pos |-> p + 2]
                    ELSE JsonItems(toks, p + 1, <<>>)
               [] tok = TPunct("{") ->
                    IF p + 1 <= Len(toks) /\ toks[p + 1] = TPunct("}")
                    THEN [ok |-> TRUE, val |-> PyDict(<<>>, <<>>), pos |-> p + 2]
                    ELSE JsonMembers(toks, p + 1, <<>>, <<>>)
               [] OTHER -> JsonFail

\* The elements of an array from position p, after '[' or ','.
JsonItems(toks, p, acc) ==
    LET v == JsonValue(toks, p)
    IN  IF ~v.ok \/ v.pos > Len(toks) THEN JsonFail
        ELSE IF toks[v.pos] = TPunct(",")
        THEN JsonItems(toks, v.pos + 1, Append(acc, v.val))
        ELSE IF toks[v.pos] = TPunct("]")
        THEN [ok |-> TRUE, val |-> PyList(Append(acc, v.val)), pos |-> v.pos + 1]
        ELSE JsonFail

\* The members of an object from position p, after '{' or ','.
JsonMembers(toks, p, keys, vals) ==
    IF p + 1 > Len(toks) \/ toks[p].k # "str" \/ toks[p + 1] # TPunct(":")
    THEN JsonFail
    ELSE LET v == JsonValue(toks, p + 2)
         IN  IF ~v.ok \/ v.pos > Len(toks) THEN JsonFail
             ELSE IF toks[v.pos] = TPunct(",")
             THEN JsonMembers(toks, v.pos + 1, Append(keys, toks[p].v), Append(vals, v.val))
             ELSE IF toks[v.pos] = TPunct("}")
             THEN [ok |-> TRUE,
                   val |-> PyDict(Append(keys, toks[p].v), Append(vals, v.val)),
                   pos |-> v.pos + 1]
             ELSE JsonFail

json_loads(text) ==
    LET toks == SelectSeq(text, LAMBDA tok : tok.k # "nl")
        v    == JsonValue(toks, 1)
    IN  IF v.ok /\ v.pos = Len(toks) + 1
        THEN [raised |-> "none", value |-> v.val]
        ELSE [raised |-> "JSONDecodeError"]

(***************************************************************************)
(* parse_ai_response, first the structured attempt (the try block).        *)
(***************************************************************************)
\* re.search(r'\[[\s\S]*\]', text): from the first '[' to the last ']'.
JsonMatch(text) ==
    LET opens  == {i \in 1..Len(text) : text[i] = TPunct("[")}
        closes == {i \in 1..Len(text) : text[i] = TPunct("]")}
        first  == CHOOSE i \in opens : \A j \in opens : i <= j
        last   == CHOOSE i \in closes : \A j \in closes : j <= i
    IN  IF opens = {} \/ closes = {} THEN <<>>
        ELSE IF last < first THEN <<>>
        ELSE SubSeq(text, first, last)

\* Mutant of NormalizeEntry: the type is stored as written, not lower-cased.
NormalizeEntry_NoLower(mat) ==
    LET type == DictGet(mat, "type", PyStr("unknown"))
        x    == PyIntOf(DictGet(mat, "x", PyInt(50)))
        y    == PyIntOf(DictGet(mat, "y", PyInt(50)))
    IN  IF type.t # "str" THEN [raised |-> "AttributeError"]
        ELSE IF x.raised # "none" THEN [raised |-> x.raised]
        ELSE IF y.raised # "none" THEN [raised |-> y.raised]
        ELSE [raised |-> "none",
              value  |-> [name  |-> DictGet(mat, "name", PyStr("Unknown Material")),
                          type  |-> type.v,
                          x     |-> x.value,
                          y     |-> y.value,
                          color |-> DictGet(mat, "color", PyStr("#808080"))]]

\* The dictionary appended for one entry that is a dict with a 'type' key;
\* the fields are evaluated in the order they are written.
NormalizeEntry(mat) ==
    LET type == DictGet(mat, "type", PyStr("unknown"))
        x    == PyIntOf(DictGet(mat, "x", PyInt(50)))
        y    == PyIntOf(DictGet(mat, "y", PyInt(50)))
    IN  IF type.t # "str" THEN [raised |-> "AttributeError"]
        ELSE IF x.raised # "none" THEN [raised |-> x.raised]
        ELSE IF y.raised # "none" THEN [raised |-> y.raised]
        ELSE [raised |-> "none",
              value  |-> [name  |-> DictGet(mat, "name", PyStr("Unknown Material")),
                          type  |-> LowerText(type.v),
                          x     |-> x.value,
                          y     |-> y.value,
                          color |-> DictGet(mat, "color", PyStr("#808080"))]]

\* The loop over the decoded entries: the materials appended so far and the
\* exception that ended the loop, if one did.
RECURSIVE NormalizeEntries(_, _, _)
NormalizeEntries(entries, n, materials) ==
    IF n > Len(entries) THEN [raised |-> "none", materials |-> materials]
    ELSE LET mat == entries[n]
         IN  IF mat.t = "dict" /\ DictHas(mat, "type")
             THEN LET m == NormalizeEntry(mat)
                  IN  IF m.raised # "none"
                      THEN [raised |-> m.raised, materials |-> materials]
                      ELSE NormalizeEntries(entries, n + 1, Append(materials, m.value))
             ELSE NormalizeEntries(entries, n + 1, materials)

\* The try block: "return" (materials returned), "raise" (an exception the
\* except clause does not name), or "fall" (on to the text scan, with the
\* materials appended before a caught exception still in the list).
StructuredAttempt(response_text) ==
    LET json_str == JsonMatch(response_text)
        parsed   == json_loads(json_str)
        done     == NormalizeEntries(parsed.value.items, 1, <<>>)
    IN  IF json_str = <<>> THEN [exit |-> "fall", materials |-> <<>>]
        ELSE IF parsed.raised # "none" THEN [exit |-> "fall", materials |-> <<>>]
        ELSE IF done.raised = "ValueError" THEN [exit |-> "fall", materials |-> done.materials]
        ELSE IF done.raised # "none" THEN [exit |-> "raise", raised |-> done.raised]
        ELSE IF done.materials # <<>> THEN [exit |-> "return", materials |-> done.materials]
        ELSE [exit |-> "fall", materials |-> <<>>]

(***************************************************************************)
(* parse_ai_response, the text scan (the fallback).                        *)
(***************************************************************************)
\* str.split('\n'): the lines, each already stripped of surrounding blanks.
RECURSIVE SplitLines(_, _, _)
SplitLines(text, n, line) ==
    IF n > Len(text) THEN <<line>>
    ELSE IF text[n].k = "nl" THEN <<line>> \o SplitLines(text, n + 1, <<>>)
    ELSE SplitLines(text, n + 1, Append(line, text[n]))

\* The keywords that occur in line.lower().
LineKeywords(line) ==
    UNION {KeywordsIn(LowerText(line[i].v)) : i \in 1..Len(line)}

HasColon(line) == \E i \in 1..Len(line) : line[i] = TPunct(":")

\* line.split(':')[0]
BeforeColon(line) ==
    LET colons == {i \in 1..Len(line) : line[i] = TPunct(":")}
        first  == CHOOSE i \in colons : \A j \in colons : i <= j
    IN  SubSeq(line, 1, first - 1)

LineName(line, default) ==
    IF HasColon(line) THEN PyText(BeforeColon(line)) ELSE PyStr(default)

\* The type and name the if/elif chain assigns for a line, in its order.
LineMaterial(line) ==
    LET kw == LineKeywords(line)
    IN  IF kw \cap {"glass", "window", "facade"} # {}
        THEN [hit |-> TRUE, type |-> "glass", name |-> LineName(line, "Glass Element")]
        ELSE IF kw \cap {"concrete", "cement"} # {}
        THEN [hit |-> TRUE, type |-> "concrete", name |-> LineName(line, "Concrete Element")]
        ELSE IF kw \cap {"wood", "timber"} # {}
        THEN [hit |-> TRUE, type |-> "wood", name |-> LineName(line, "Wood Element")]
        ELSE IF kw \cap {"metal", "steel", "aluminum"} # {}
        THEN [hit |-> TRUE, type |-> "metal", name |-> LineName(line, "Metal Element")]
        ELSE IF kw \cap {"brick", "masonry"} # {}
        THEN [hit |-> TRUE, type |-> "brick", name |-> LineName(line, "Brick Element")]
        ELSE IF kw \cap {"grass", "lawn", "vegetation", "tree", "plant"} # {}
        THEN [hit |-> TRUE, type |-> "grass", name |-> LineName(line, "Vegetation")]
        ELSE IF kw \cap {"road", "asphalt", "pavement"} # {}
        THEN [hit |-> TRUE, type |-> "asphalt", name |-> LineName(line, "Road Surface")]
        ELSE IF "sky" \in kw
        THEN [hit |-> TRUE, type |-> "sky", name |-> PyStr("Sky")]
        ELSE [hit |-> FALSE]

NoMaterial == [set |-> FALSE]

\* Mutant of ScanLines: the material still open after the last line is lost.
RECURSIVE ScanLines_NoFinalAppend(_, _, _, _)
ScanLines_NoFinalAppend(lines, n, materials, current) ==
    IF n > Len(lines) THEN materials
    ELSE IF lines[n] = <<>>
    THEN IF current.set
         THEN ScanLines_NoFinalAppend(lines, n + 1, Append(materials, current.dict), NoMaterial)
         ELSE ScanLines_NoFinalAppend(lines, n + 1, materials, current)
    ELSE LET m == LineMaterial(lines[n])
         IN  IF ~m.hit THEN ScanLines_NoFinalAppend(lines, n + 1, materials, current)
             ELSE ScanLines_NoFinalAppend(lines, n + 1, materials,
                            [set |-> TRUE,
                             dict |-> [name  |-> m.name,
                                       type  |-> m.type,
                                       x     |-> 50,
                                       y     |-> 50,
                                       color |-> PyStr("#808080")]])

\* The loop over the lines.  current is current_material: NoMaterial while
\* the dictionary is empty, else the dictionary (its 'type' is always set).
RECURSIVE ScanLines(_, _, _, _)
ScanLines(lines, n, materials, current) ==
    IF n > Len(lines)
    THEN IF current.set THEN Append(materials, current.dict) ELSE materials
    ELSE IF lines[n] = <<>>
    THEN IF current.set
         THEN ScanLines(lines, n + 1, Append(materials, current.dict), NoMaterial)
         ELSE ScanLines(lines, n + 1, materials, current)
    ELSE LET m == LineMaterial(lines[n])
         IN  IF ~m.hit THEN ScanLines(lines, n + 1, materials, current)
             ELSE IF current.set
             THEN ScanLines(lines, n + 1, materials,
                            [set |-> TRUE,
                             dict |-> [current.dict EXCEPT !.type = m.type, !.name = m.name]])
             ELSE ScanLines(lines, n + 1, materials,
                            [set |-> TRUE,
                             dict |-> [name  |-> m.name,
                                       type  |-> m.type,
                                       x     |-> 50,
                                       y     |-> 50,
                                       color |-> PyStr("#808080")]])

parse_ai_response(response_text) ==
    LET attempt == StructuredAttempt(response_text)
    IN  IF attempt.exit = "raise" THEN [raised |-> attempt.raised]
        ELSE IF attempt.exit = "return" THEN [raised |-> "none", value |-> attempt.materials]
        ELSE [raised |-> "none",
              value  |-> ScanLines(SplitLines(response_text, 1, <<>>), 1,
                                   attempt.materials, NoMaterial)]

(***************************************************************************)
(* analyze_image_with_ai.  The call posts one request to the API and       *)
(* waits; what comes back is the environment's choice: requests.post       *)
(* raises, or a response with a status code and a body arrives.            *)
(***************************************************************************)
\* `not api_key`: None and the empty string are false.
Truthy(key) == key # None /\ key # ""

\* The key after the lookup of OPENROUTER_API_KEY; environ is the value of
\* the variable (None when it is not set).
ApiKey(api_key, environ) == IF Truthy(api_key) THEN api_key ELSE environ

\* base64.b64encode accepts bytes only.
EncodeRaises(image_bytes) == image_bytes.kind = "text"

Failure(error) == [error |-> error, materials |-> <<>>, objects |-> <<>>]

Success(materials, ai_response) ==
    [success |-> TRUE, materials |-> materials, raw_response |-> ai_response]

\* str(e) of the exceptions parse_ai_response lets through.
ErrorText(raised) ==
    CASE raised = "AttributeError" -> "'int' object has no attribute 'lower'"
      [] raised = "TypeError" ->
            "int() argument must be a string, a bytes-like object or a real number, not 'NoneType'"
      [] OTHER -> raised

NotSubscriptable(v) ==
    [raised |-> "TypeError", text |-> "'" \o v.t \o "' object is not subscriptable"]

\* v[key] for a string key.
Item(v, key) ==
    CASE v.t = "dict" ->
            IF DictHas(v, key) THEN [raised |-> "none", value |-> DictGet(v, key, PyNone)]
            ELSE [raised |-> "KeyError", text |-> "'" \o key \o "'"]
      [] v.t = "list" ->
            [raised |-> "TypeError",
             text   |-> "list indices must be integers or slices, not str"]
      [] OTHER -> NotSubscriptable(v)

\* v[0]
First(v) ==
    CASE v.t = "list" ->
            IF v.items = <<>>
            THEN [raised |-> "IndexError", text |-> "list index out of range"]
            ELSE [raised |-> "none", value |-> v.items[1]]
      [] v.t = "dict" -> [raised |-> "KeyError", text |-> "0"]
      [] OTHER -> NotSubscriptable(v)

\* result['choices'][0]['message']['content']
ContentOf(result) ==
    LET choices == Item(result, "choices")
    IN  IF choices.raised # "none" THEN choices
        ELSE LET first == First(choices.value)
             IN  IF first.raised # "none" THEN first
                 ELSE LET message == Item(first.value, "message")
                      IN  IF message.raised # "none" THEN message
                          ELSE Item(message.value, "content")

\* re.search on a content that is not a string.
NotText(ai_response) ==
    "expected string or bytes-like object, got '" \o ai_response.t \o "'"

\* Mutant of ParsedOutcome: an exception of parse_ai_response leaves the
\* function.
ParsedOutcome_Propagate(ai_response) ==
    IF ai_response.t # "str"
    THEN [raised |-> "none", value |-> Failure(NotText(ai_response))]
    ELSE LET materials == parse_ai_response(ai_response.toks)
         IN  IF materials.raised # "none"
             THEN [raised |-> materials.raised]
             ELSE [raised |-> "none", value |-> Success(materials.value, ai_response)]

\* Lines 120-126 inside the try block: re.search raises TypeError on a
\* content that is not a string, and every exception of the parser is
\* caught by `except Exception`.
ParsedOutcome(ai_response) ==
    IF ai_response.t # "str"
    THEN [raised |-> "none", value |-> Failure(NotText(ai_response))]
    ELSE LET materials == parse_ai_response(ai_response.toks)
         IN  IF materials.raised # "none"
             THEN [raised |-> "none", value |-> Failure(ErrorText(materials.raised))]
             ELSE [raised |-> "none", value |-> Success(materials.value, ai_response)]

\* The function up to requests.post: "return" with a result, or "post".
BeforePost(image_bytes, api_key, environ) ==
    IF ~Truthy(ApiKey(api_key, environ))
    THEN [exit |-> "return", value |-> Failure("No API key provided")]
    ELSE IF EncodeRaises(image_bytes)
    THEN [exit |-> "return",
          value |-> Failure("a bytes-like object is required, not 'str'")]
    ELSE [exit |-> "post"]

\* The function from requests.post on, given what came back.
AfterPost(response) ==
    IF response.kind = "raise"
    THEN [raised |-> "none", value |-> Failure(response.error)]
    ELSE IF response.status_code # 200
    THEN [raised |-> "none",
          value  |-> Failure("API error: " \o ToString(response.status_code))]
    ELSE IF response.json.raised # "none"
    THEN [raised |-> "none", value |-> Failure(response.json.text)]
    ELSE LET ai_response == ContentOf(response.json.value)
         IN  IF ai_response.raised # "none"
             THEN [raised |-> "none", value |-> Failure(ai_response.text)]
             ELSE ParsedOutcome(ai_response.value)

(***************************************************************************)
(* Images.  The bytes of an upload are empty, undecodable, or decode       *)
(* (Image.open(...).convert("RGB")) to a w x h image.  px holds the pixels *)
(* row by row, or a single colour when the whole image has that colour.    *)
(***************************************************************************)
EmptyBytes   == [kind |-> "empty"]
GarbageBytes == [kind |-> "garbage"]
ImageBytes(w, h, px) == [kind |-> "image", w |-> w, h |-> h, px |-> px]

Decodable(bytes) == bytes.kind = "image"

IsSolid(im) == \A i \in 1..Len(im.px) : im.px[i] = im.px[1]

\* The colours of an image and the number of pixels of each.
ColorsOf(im) == {im.px[i] : i \in 1..Len(im.px)}

PixelCount(im, rgb) ==
    IF Len(im.px) = 1 THEN im.w * im.h
    ELSE Cardinality({i \in 1..Len(im.px) : im.px[i] = rgb})

\* round(num / den, 0) as Python rounds: to the nearest integer, a tie to
\* the even one.  den > 0.
RoundHalfEven(num, den) ==
    LET q == num \div den
        r == num - q * den
    IN  IF 2 * r < den THEN q
        ELSE IF 2 * r > den THEN q + 1
        ELSE IF q % 2 = 0 THEN q ELSE q + 1

\* The largest t with t * t <= n.
RECURSIVE ISqrtFrom(_, _, _)
ISqrtFrom(n, lo, hi) ==
    IF lo >= hi THEN lo
    ELSE LET mid == (lo + hi + 1) \div 2
         IN  IF mid * mid <= n THEN ISqrtFrom(n, mid, hi) ELSE ISqrtFrom(n, lo, mid - 1)

ISqrt(n) == ISqrtFrom(n, 0, 46340)

RECURSIVE SumSeq(_, _)
SumSeq(s, n) == IF n = 0 THEN 0 ELSE s[n] + SumSeq(s, n - 1)

Sum(s) == SumSeq(s, Len(s))

(***************************************************************************)
(* image_stats.py.  Every float of the record is kept in tenths, as        *)
(* round(value, 1) leaves it; sharpness_laplacian_var is an integer.       *)
(***************************************************************************)
\* cv2.cvtColor(..., COLOR_RGB2GRAY) on 8-bit pixels:
\* 0.299 R + 0.587 G + 0.114 B in 14-bit fixed point, rounded.
Gray(rgb) == (4899 * rgb[1] + 9617 * rgb[2] + 1868 * rgb[3] + 8192) \div 16384

\* The S channel of cv2.cvtColor(..., COLOR_RGB2HSV) on 8-bit pixels:
\* 255 * (max - min) / max in 12-bit fixed point.
Saturation(rgb) ==
    LET v    == Max(rgb[1], Max(rgb[2], rgb[3]))
        diff == v - Min(rgb[1], Min(rgb[2], rgb[3]))
    IN  IF v = 0 THEN 0
        ELSE (diff * RoundHalfEven(1044480, v) + 2048) \div 4096

\* Index i of a row or column of length n under BORDER_REFLECT_101.
Reflect101(i, n) ==
    IF n = 1 THEN 0
    ELSE LET period == 2 * (n - 1)
             m      == i % period
         IN  IF m < n THEN m ELSE period - m

\* The pixels the statistics are computed over: the image itself, or one
\* pixel standing for an image of a single colour (every neighbourhood of
\* such an image holds that colour only).
StatGrid(im) ==
    IF Len(im.px) = 1 THEN [w |-> 1, h |-> 1, g |-> <<Gray(im.px[1])>>]
    ELSE [w |-> im.w, h |-> im.h, g |-> [i \in 1..Len(im.px) |-> Gray(im.px[i])]]

GrayAt(grid, x, y) ==
    grid.g[Reflect101(y, grid.h) * grid.w + Reflect101(x, grid.w) + 1]

\* cv2.Laplacian(gray, CV_64F): the 3x3 aperture 0 1 0 / 1 -4 1 / 0 1 0.
Laplacian(grid, x, y) ==
    GrayAt(grid, x - 1, y) + GrayAt(grid, x + 1, y)
    + GrayAt(grid, x, y - 1) + GrayAt(grid, x, y + 1) - 4 * GrayAt(grid, x, y)

\* cv2.GaussianBlur(gray, (5, 5), 0): the separable kernel 1 4 6 4 1 / 16,
\* rounded half up.
Kernel5 == <<1, 4, 6, 4, 1>>

GaussianBlur(grid, x, y) ==
    LET weighted == [n \in 1..25 |->
                        LET i == (n - 1) % 5
                            j == (n - 1) \div 5
                        IN  Kernel5[i + 1] * Kernel5[j + 1]
                            * GrayAt(grid, x + i - 2, y + j - 2)]
    IN  (Sum(weighted) + 128) \div 256

Abs(n) == IF n < 0 THEN 0 - n ELSE n

\* round(mean(values), 1) in tenths.
MeanTenths(values) == RoundHalfEven(10 * Sum(values), Len(values))

\* round(std(values), 1) in tenths: the population standard deviation.
StdTenths(values) ==
    LET n  == Len(values)
        d  == n * Sum([i \in 1..n |-> values[i] * values[i]]) - Sum(values) * Sum(values)
        \* std = sqrt(d) / n; t = floor(20 * std), that is std to the half tenth
        t  == ISqrt(400 * d) \div n
    IN  (t + 1) \div 2

\* int(values.var()): the population variance, truncated.
VarInt(values) ==
    LET n == Len(values)
    IN  (n * Sum([i \in 1..n |-> values[i] * values[i]]) - Sum(values) * Sum(values))
        \div (n * n)

DefaultStats ==
    [exposure_mean |-> 1280, contrast_std |-> 500, noise_level |-> 100,
     saturation_pct |-> 500, sharpness_laplacian_var |-> 500,
     wb_shift_blue_minus_red |-> 0]

analyze_image_stats(image_bytes) ==
    IF ~Decodable(image_bytes)
    THEN \* Image.open raises; the except clause returns the defaults
         [raised |-> "none", value |-> DefaultStats]
    ELSE LET grid  == StatGrid(image_bytes)
             n     == Len(grid.g)
             px    == IF Len(image_bytes.px) = 1 THEN <<image_bytes.px[1]>> ELSE image_bytes.px
             cell(i) == [x |-> (i - 1) % grid.w, y |-> (i - 1) \div grid.w]
             sat   == [i \in 1..n |-> Saturation(px[i])]
             lap   == [i \in 1..n |-> Laplacian(grid, cell(i).x, cell(i).y)]
             noise == [i \in 1..n |-> Abs(grid.g[i] - GaussianBlur(grid, cell(i).x, cell(i).y))]
             red   == [i \in 1..n |-> px[i][1]]
             blue  == [i \in 1..n |-> px[i][3]]
         IN  [raised |-> "none",
              value  |-> [exposure_mean  |-> MeanTenths(grid.g),
                          contrast_std   |-> StdTenths(grid.g),
                          noise_level    |-> MeanTenths(noise),
                          \* mean(S) / 2.55
                          saturation_pct |-> RoundHalfEven(1000 * Sum(sat), 255 * n),
                          sharpness_laplacian_var |-> VarInt(lap),
                          wb_shift_blue_minus_red |->
                              RoundHalfEven(10 * (Sum(blue) - Sum(red)), n)]]

(***************************************************************************)
(* app.py: quick_palette.                                                  *)
(***************************************************************************)
\* s[:k] for k >= 0.
Take(s, k) == Slice(s, 0, k)

\* Mutant of FallbackPalette: the last colour is missing.
FallbackPalette_Short ==
    <<[hex |-> <<"#", "1", "e", "2", "9", "3", "b">>],
      [hex |-> <<"#", "9", "4", "a", "3", "b", "8">>],
      [hex |-> <<"#", "3", "8", "b", "d", "f", "8">>],
      [hex |-> <<"#", "f", "5", "9", "e", "0", "b">>]>>

FallbackPalette ==
    <<[hex |-> <<"#", "1", "e", "2", "9", "3", "b">>],
      [hex |-> <<"#", "9", "4", "a", "3", "b", "8">>],
      [hex |-> <<"#", "3", "8", "b", "d", "f", "8">>],
      [hex |-> <<"#", "f", "5", "9", "e", "0", "b">>],
      [hex |-> <<"#", "1", "0", "b", "9", "8", "1">>]>>

\* im.resize((min(256, im.width), min(256, im.height))): each side is
\* clamped on its own.  An image that already fits is copied, and an image
\* of one colour stays of that colour, so px is kept.
Resize(im) == [im EXCEPT !.w = Min(256, im.w), !.h = Min(256, im.h)]

\* The palettes im.quantize may give an image with no more colours than it
\* was asked for: the colours of the image, each once, in an order the
\* median cut chooses.
PaletteOrders(im) ==
    LET colors == ColorsOf(im)
        n      == Cardinality(colors)
    IN  {s \in [1..n -> colors] : \A i, j \in 1..n : s[i] = s[j] => i = j}

\* pal.histogram(): 256 counts, one per palette index (from 0).
histogram(im, palette) ==
    [i \in 0..255 |-> IF i < Len(palette) THEN PixelCount(im, palette[i + 1]) ELSE 0]

\* pal.getpalette(): the flat list r, g, b, r, g, b, ...  A Pillow that
\* trims it gives the entries in use only; an older one pads it with zeros
\* to 256 entries.
getpalette(palette, trim) ==
    [j \in 1..(IF trim THEN 3 * Len(palette) ELSE 768) |->
        IF j <= 3 * Len(palette) THEN palette[((j - 1) \div 3) + 1][((j - 1) % 3) + 1] ELSE 0]

\* sorted(range(len(hist)), key=lambda i: hist[i], reverse=True)[:k].
\* The sort is stable: the indices with a positive count by descending
\* count, equal counts by ascending index, then the indices that count
\* nothing by ascending index.
RECURSIVE UsedByCount(_, _)
UsedByCount(hist, used) ==
    IF used = {} THEN <<>>
    ELSE LET i == CHOOSE c \in used : \A d \in used :
                      hist[c] > hist[d] \/ (hist[c] = hist[d] /\ c <= d)
         IN  <<i>> \o UsedByCount(hist, used \ {i})

RECURSIVE UnusedFrom(_, _, _)
UnusedFrom(hist, i, need) ==
    IF need <= 0 \/ i > 255 THEN <<>>
    ELSE IF hist[i] = 0 THEN <<i>> \o UnusedFrom(hist, i + 1, need - 1)
    ELSE UnusedFrom(hist, i + 1, need)

TopIndices(hist, k) ==
    LET used == UsedByCount(hist, {i \in DOMAIN hist : hist[i] > 0})
    IN  Take(used \o UnusedFrom(hist, 0, k - Len(used)), k)

\* Mutant of Dedupe: every colour is appended, seen or not.
RECURSIVE Dedupe_NoSeen(_, _, _, _)
Dedupe_NoSeen(pal_img, top, n, hexes) ==
    IF n > Len(top) THEN hexes
    ELSE LET base == top[n] * 3
             hx   == rgb_to_hex(<<pal_img[base + 1], pal_img[base + 2], pal_img[base + 3]>>)
         IN  Dedupe_NoSeen(pal_img, top, n + 1, Append(hexes, [hex |-> hx]))

\* The loop over top, from its n-th index on: hexes holds the colours kept
\* so far, which are also the members of seen.
RECURSIVE Dedupe(_, _, _, _)
Dedupe(pal_img, top, n, hexes) ==
    IF n > Len(top) THEN hexes
    ELSE LET base == top[n] * 3
             hx   == rgb_to_hex(<<pal_img[base + 1], pal_img[base + 2], pal_img[base + 3]>>)
         IN  IF \E i \in 1..Len(hexes) : hexes[i].hex = hx
             THEN Dedupe(pal_img, top, n + 1, hexes)
             ELSE Dedupe(pal_img, top, n + 1, Append(hexes, [hex |-> hx]))

\* palette is the palette the quantizer gives the resized image.
quick_palette(pil_ok, trim, img_bytes, k, palette) ==
    IF ~pil_ok THEN Take(FallbackPalette, k)
    ELSE IF ~Decodable(img_bytes) THEN Take(FallbackPalette, k)      \* Image.open raises
    ELSE IF Max(16, k * 3) > 256 THEN Take(FallbackPalette, k)       \* quantize raises ValueError
    ELSE LET im      == Resize(img_bytes)
             hist    == histogram(im, palette)
             pal_img == getpalette(palette, trim)
             top     == TopIndices(hist, k)
         IN  IF \E n \in 1..Len(top) : top[n] * 3 + 3 > Len(pal_img)
             THEN Take(FallbackPalette, k)                           \* idx_to_rgb raises IndexError
             ELSE Take(Dedupe(pal_img, top, 1, <<>>), k)

(***************************************************************************)
(* material_db.py with several callers at once.  A result is a dict: a     *)
(* reference to a cell of the heap, or to the first texture dict of a      *)
(* category of the database.  A call runs in steps, and the steps of       *)
(* different callers interleave.                                           *)
(***************************************************************************)
Callers == {1, 2}

MaxSharedPalette == 2   \* longest palette of a caller that runs beside another

HeapSize == Cardinality(Callers) * (MaxSharedPalette + 1)

NoRef == [space |-> "none", at |-> 0]
HeapRef(a) == [space |-> "heap", at |-> a]
TextureRef(i) == [space |-> "database", at |-> i]

Free == [free |-> TRUE]

IdleFrame ==
    [pc |-> "idle", fn |-> None, hex_color |-> <<>>, position_y |-> 0,
     best_match |-> 0, material |-> NoRef, palette |-> <<>>, i |-> 0,
     suggestions |-> <<>>, held |-> <<>>]

\* The loops of find_best_material_match: the index of best_match in the
\* database (0: None).
BestMatch(db, hex_color, position_y) ==
    LET rgb == hex_to_rgb(hex_color)
    IN  IF Len(db) > 0 /\ rgb.raised # "none" THEN [raised |-> "ValueError"]
        ELSE LET pairs  == CatalogPairs(db, 1)
                 dist   == [n \in 1..Len(pairs) |->
                               PairDistance(db, pairs[n], rgb.value, position_y)]
                 winner == ScanPairs(dist, 1, 0)
             IN  [raised |-> "none",
                  value  |-> IF winner = 0 THEN 0 ELSE pairs[winner].cat]

\* Mutant of copy: the texture dict itself is handed out.
copy_Alias(texture, fresh) == texture

\* best_match['textures'][0].copy(): a new dict, at the address fresh.
copy(texture, fresh) == fresh

\* The dict that starts the fallback result.
FallbackDict(db, best_match, hex_color) ==
    [name     |-> IF best_match # 0 THEN Humanize(db[best_match].key) ELSE "Unknown Material",
     hex      |-> hex_color,
     category |-> IF best_match # 0 THEN db[best_match].key ELSE "unknown"]

(***************************************************************************)
(* generate_texture_suggestions.                                           *)
(***************************************************************************)
\* The position given to the i-th colour (i from 0).
Slot(i) ==
    IF i = 0 THEN [x |-> 30, y |-> 20]
    ELSE IF i = 1 THEN [x |-> 50, y |-> 50]
    ELSE IF i = 2 THEN [x |-> 30, y |-> 75]
    ELSE IF i = 3 THEN [x |-> 70, y |-> 30]
    ELSE IF i = 4 THEN [x |-> 70, y |-> 60]
    ELSE [x |-> 50, y |-> 80]

\* color_data.get('hex', '#808080').
EntryHex(color_data) ==
    IF "hex" \in DOMAIN color_data THEN color_data.hex
    ELSE <<"#", "8", "0", "8", "0", "8", "0">>

\* The loop over palette[:6], from its n-th entry on (n from 1).  y / 100.0
\* is the slot's y in hundredths.  A ValueError of the matcher ends the call.
RECURSIVE SuggestFrom(_, _, _, _)
SuggestFrom(db, top, n, suggestions) ==
    IF n > Len(top) THEN [raised |-> "none", value |-> suggestions]
    ELSE LET slot     == Slot(n - 1)
             material == find_best_material_match(db, EntryHex(top[n]), slot.y)
         IN  IF material.raised # "none" THEN [raised |-> material.raised]
             ELSE SuggestFrom(db, top, n + 1,
                              Append(suggestions, [x |-> slot.x, y |-> slot.y] @@ material.value))

generate_texture_suggestions(db, palette) ==
    IF Len(palette) = 0 THEN [raised |-> "none", value |-> <<>>]
    ELSE SuggestFrom(db, Take(palette, 6), 1, <<>>)

(***************************************************************************)
(* app.py: POST /api/analyze_render.  A request carries at most one file   *)
(* per field; a file is its filename and its bytes.                        *)
(***************************************************************************)
RenderTextures ==
    <<[name |-> "Floor Wood",
       texture_url |-> "https://dl.polyhaven.com/file/ph-assets/Textures/jpg/2k/wood_cabinet_worn/wood_cabinet_worn_diff_2k.jpg",
       hex |-> "#8b6a4b",
       x |-> 40,
       y |-> 80,
       suggestion |-> "Walnut Brown",
       suggestion_url |-> "https://dl.polyhaven.com/file/ph-assets/Textures/jpg/2k/walnut_veneer/walnut_veneer_diff_2k.jpg",
       link |-> "https://polyhaven.com/a/walnut_veneer"],
      [name |-> "Ceiling Plaster",
       texture_url |-> "https://dl.polyhaven.com/file/ph-assets/Textures/jpg/2k/plaster_grey/plaster_grey_diff_2k.jpg",
       hex |-> "#e5e5e5",
       x |-> 50,
       y |-> 15,
       suggestion |-> "Rough Plaster",
       suggestion_url |-> "https://dl.polyhaven.com/file/ph-assets/Textures/jpg/2k/white_rough_plaster/white_rough_plaster_diff_2k.jpg",
       link |-> "https://polyhaven.com/a/white_rough_plaster"],
      [name |-> "Velvet Sofa",
       texture_url |-> "https://dl.polyhaven.com/file/ph-assets/Textures/jpg/2k/fabric_pattern_07/fabric_pattern_07_col_1_2k.jpg",
       hex |-> "#2c5f2d",
       x |-> 25,
       y |-> 60,
       suggestion |-> "Emerald Velvet",
       suggestion_url |-> "https://dl.polyhaven.com/file/ph-assets/Textures/jpg/2k/fabric_pattern_05/fabric_pattern_05_col_01_2k.jpg",
       link |-> "https://polyhaven.com/a/fabric_pattern_05"],
      [name |-> "Marble Table",
       texture_url |-> "https://dl.polyhaven.com/file/ph-assets/Textures/jpg/2k/marble_01/marble_01_diff_2k.jpg",
       hex |-> "#f5f5f5",
       x |-> 70,
       y |-> 65,
       suggestion |-> "Carrara Marble",
       suggestion_url |-> "https://dl.polyhaven.com/file/ph-assets/Textures/jpg/2k/marble_01/marble_01_diff_2k.jpg",
       link |-> "https://polyhaven.com/a/marble_01"]>>

ReferenceTextures ==
    <<[name |-> "Warm Walnut",
       texture_url |-> "https://dl.polyhaven.com/file/ph-assets/Textures/jpg/2k/walnut_veneer/walnut_veneer_diff_2k.jpg",
       note |-> "More pronounced grain, slightly cooler tint",
       link |-> "https://polyhaven.com/textures/wood",
       hex |-> "#8a6a4f",
       x |-> 35,
       y |-> 45],
      [name |-> "Brushed Brass",
       texture_url |-> "https://dl.polyhaven.com/file/ph-assets/Textures/jpg/2k/brass_pure/brass_pure_diff_2k.jpg",
       note |-> "Use metal/roughness workflow; reduce roughness a bit",
       link |-> "https://polyhaven.com/textures/metal",
       hex |-> "#c7a24a",
       x |-> 65,
       y |-> 30],
      [name |-> "Green Velvet",
       texture_url |-> "https://dl.polyhaven.com/file/ph-assets/Textures/jpg/2k/fabric_pattern_05/fabric_pattern_05_col_01_2k.jpg",
       note |-> "Rich, deep green fabric for upholstery",
       link |-> "https://polyhaven.com/a/fabric_pattern_05",
       hex |-> "#1a472a",
       x |-> 20,
       y |-> 60],
      [name |-> "White Marble",
       texture_url |-> "https://dl.polyhaven.com/file/ph-assets/Textures/jpg/2k/marble_01/marble_01_diff_2k.jpg",
       note |-> "Classic white marble with subtle veining",
       link |-> "https://polyhaven.com/a/marble_01",
       hex |-> "#eeeeee",
       x |-> 75,
       y |-> 70]>>

Differences ==
    <<"Wood grain too smooth compared to reference.",
      "Flooring color slightly warmer than reference.",
      "Metal accents: increase anisotropic highlight to match brushed brass.">>

Critique ==
    "The render has good composition but lacks the contrast depth of the reference. The lighting feels a bit flat, and the wood textures are too smooth. Increasing the ambient occlusion and using higher-roughness maps for the floor would improve realism."


\* The mocked analysis numbers, the floats in tenths.
MockAnalysis(render_palette) ==
    [exposure_mean |-> 1208, contrast_std |-> 522, noise_level |-> 77,
     palette |-> render_palette, saturation_pct |-> 283,
     sharpness_laplacian_var |-> 1726, wb_shift_blue_minus_red |-> 0 - 155]

LightingSuggestions(analysis) ==
    (IF analysis.exposure_mean < 1000
     THEN <<[type |-> "Exposure",
             suggestion |-> "Increase global exposure or add fill lights.",
             action |-> "Adjust Exposure +0.5EV"]>>
     ELSE IF analysis.exposure_mean > 1800
     THEN <<[type |-> "Exposure",
             suggestion |-> "Reduce exposure to prevent blown-out highlights.",
             action |-> "Adjust Exposure -0.5EV"]>>
     ELSE <<>>)
    \o (IF analysis.contrast_std < 400
        THEN <<[type |-> "Contrast",
                suggestion |-> "Lighting is too flat. Add directional light.",
                action |-> "Increase Contrast"]>>
        ELSE <<>>)
    \o <<[type |-> "HDRI",
          suggestion |-> "Use a 'Golden Hour' HDRI for warmer tones.",
          action |-> "Set HDRI: Golden Hour"]>>

NoFile == [kind |-> "absent", filename |-> "", bytes |-> EmptyBytes]
File(filename, bytes) == [kind |-> "file", filename |-> filename, bytes |-> bytes]

\* Mutant of FilePresent: a file counts whatever its name.
FilePresent_AnyName(file) == file.kind = "file"

\* bool(FileStorage): false for an absent field and for a file with no name.
FilePresent(file) == file.kind = "file" /\ file.filename # ""

\* render_palette and ref_palette are the palettes the quantizer gives the
\* two images.  A dict of the response whose keys vary is a sequence of
\* <<key, value>> pairs.
analyze_render(pil_ok, trim, req, render_palette, ref_palette) ==
    IF req.too_large
    THEN \* request.files raises RequestEntityTooLarge (MAX_CONTENT_LENGTH)
         [status |-> 413, body |-> [error |-> "Request Entity Too Large"]]
    ELSE IF ~FilePresent(req.render)
    THEN [status |-> 400, body |-> [error |-> "Missing file field 'render'"]]
    ELSE LET render_bytes == req.render.bytes
             \* "if ref_bytes": a reference file that is present and not empty
             has_ref      == FilePresent(req.reference) /\ req.reference.bytes.kind # "empty"
             ref_bytes    == req.reference.bytes
             palette      == quick_palette(pil_ok, trim, render_bytes, 6, render_palette)
             refpal       == IF has_ref
                             THEN quick_palette(pil_ok, trim, ref_bytes, 6, ref_palette)
                             ELSE <<>>
             analysis     == MockAnalysis(palette)
         IN  [status |-> 200,
              body |-> [analysis |-> analysis,
                        analysis_ref |-> IF has_ref THEN << <<"palette", refpal>> >> ELSE <<>>,
                        render_textures |-> RenderTextures,
                        reference_textures |-> IF has_ref THEN ReferenceTextures ELSE <<>>,
                        differences |-> IF has_ref THEN Differences ELSE <<>>,
                        score |-> 72,
                        critique |-> Critique,
                        lighting_suggestions |-> LightingSuggestions(analysis)]]

(***************************************************************************)
(* Inputs.                                                                 *)
(***************************************************************************)
RECURSIVE Strings(_, _)
Strings(alphabet, n) ==
    IF n = 0 THEN {<<>>}
    ELSE LET shorter == Strings(alphabet, n - 1)
         IN  shorter \cup {<<ch>> \o s : ch \in alphabet, s \in {t \in shorter : Len(t) = n - 1}}

RECURSIVE Hashes(_)
Hashes(n) == IF n = 0 THEN <<>> ELSE <<"#">> \o Hashes(n - 1)

\* Colour strings handed to hex_to_rgb: digits of both cases and a non-digit,
\* every length up to MaxHexLen, behind up to MaxHashes '#'; and strings
\* with a sign, a blank or an inner '#'.
HexBodyChars == {"a", "F", "g"}

HexInputs ==
    {Hashes(k) \o s : k \in 0..MaxHashes, s \in Strings(HexBodyChars, MaxHexLen)}
    \cup {<<"+", "a", "+", "a", "+", "a">>,
          <<"#", "-", "a", "-", "a", "-", "a">>,
          <<" ", "F", "F", " ", " ", "F">>,
          <<"#", "8", "7", "c", "e", "e", "b">>,
          <<"#", "8", "7", "C", "E", "E", "B">>,
          <<"0", "0", "0", "0", "0", "0">>,
          <<"a", "a", "#", "a", "a", "a">>,
          <<"1", "2", "3", "4", "5">>}

\* Colours and positions handed to find_best_material_match.
MatchColors ==
    {<<"#", "8", "7", "C", "E", "E", "B">>,
     <<"#", "8", "7", "c", "e", "e", "b">>,
     <<"8", "7", "C", "E", "E", "B">>,
     <<"#", "8", "0", "8", "0", "8", "0">>,
     <<"#", "9", "0", "9", "0", "9", "0">>,
     <<"#", "F", "F", "F", "F", "F", "F">>,
     <<"#", "F", "A", "F", "A", "F", "A">>,
     <<"#", "0", "0", "0", "0", "0", "0">>,
     <<"#", "2", "2", "8", "B", "2", "2">>,
     <<"#", "8", "B", "4", "5", "1", "3">>,
     <<"#", "B", "2", "2", "2", "2", "2">>,
     <<"#", "1", "E", "9", "0", "F", "F">>,
     <<"#", "7", "0", "A", "0", "D", "0">>,
     <<"#", "C", "0", "C", "0", "C", "0">>,
     <<"#", "G", "G", "G", "G", "G", "G">>,
     <<"#", "F", "F", "F">>,
     <<>>}

Positions == {0, 10, 29, 30, 31, 50, 69, 70, 71, 90, 100}

(***************************************************************************)
(* Response texts handed to parse_ai_response: what the vision service     *)
(* may write.  A payload records how it was built (kind, entries) next to  *)
(* its text; the parser reads the text alone.                              *)
(***************************************************************************)
IntNumeral(n) ==
    CASE n = 5 -> "5" [] n = 7 -> "7" [] n = 30 -> "30" [] n = 40 -> "40"

RECURSIVE Render(_)
RECURSIVE RenderItems(_, _)
RECURSIVE RenderMembers(_, _)

Render(v) ==
    CASE v.t = "str"      -> <<TStr(v.v)>>
      [] v.t = "int"      -> <<TNum(IntNumeral(v.n))>>
      [] v.t = "float"    -> <<TNum(v.v)>>
      [] v.t = "bool"     -> <<TLit(IF v.b THEN "true" ELSE "false")>>
      [] v.t = "NoneType" -> <<TLit("null")>>
      [] v.t = "list"     -> <<TPunct("[")>> \o RenderItems(v.items, 1) \o <<TPunct("]")>>
      [] v.t = "dict"     -> <<TPunct("{")>> \o RenderMembers(v, 1) \o <<TPunct("}")>>

RenderItems(items, n) ==
    IF n > Len(items) THEN <<>>
    ELSE Render(items[n])
         \o (IF n < Len(items) THEN <<TPunct(",")>> ELSE <<>>)
         \o RenderItems(items, n + 1)

RenderMembers(d, n) ==
    IF n > Len(d.keys) THEN <<>>
    ELSE <<TStr(d.keys[n]), TPunct(":")>> \o Render(d.vals[n])
         \o (IF n < Len(d.keys) THEN <<TPunct(",")>> ELSE <<>>)
         \o RenderMembers(d, n + 1)

\* The array on one line, or with one entry per line.
RECURSIVE RenderEntryLines(_, _)
RenderEntryLines(entries, n) ==
    IF n > Len(entries) THEN <<>>
    ELSE Render(entries[n])
         \o (IF n < Len(entries) THEN <<TPunct(",")>> ELSE <<>>)
         \o <<TNewline>>
         \o RenderEntryLines(entries, n + 1)

RenderBlock(entries, layout) ==
    IF layout = "compact" THEN Render(PyList(entries))
    ELSE <<TPunct("["), TNewline>> \o RenderEntryLines(entries, 1) \o <<TPunct("]")>>

WoodWith(key, v) == PyDict(<<"type", key>>, <<PyStr("wood"), v>>)

EntryPool ==
    { PyDict(<<"name", "type", "x", "y", "color">>,
             <<PyStr("Glass Wall"), PyStr("Glass"), PyInt(30), PyInt(40), PyStr("#87CEEB")>>),
      PyDict(<<"type">>, <<PyStr("SKY")>>),
      PyDict(<<"name">>, <<PyStr("Glass Wall")>>),
      PyDict(<<"name", "type", "color">>, <<PyNone, PyStr("metal"), PyNone>>),
      PyDict(<<>>, <<>>),
      WoodWith("x", PyStr("30")),
      WoodWith("x", PyStr("abc")),
      WoodWith("x", PyNone),
      WoodWith("x", PyFloat("12.7")),
      WoodWith("x", PyList(<<>>)),
      WoodWith("y", PyNone),
      WoodWith("y", PyStr("abc")),
      PyDict(<<"type">>, <<PyInt(5)>>),
      PyDict(<<"type", "x">>, <<PyNone, PyStr("abc")>>),
      PyInt(7),
      PyStr("brick"),
      PyNone }

MaxEntries == 2     \* most entries of a structured block
MaxProseLen == 4    \* most tokens of a prose payload

Prefixes ==
    { <<>>,
      <<TWord("The"), TWord("materials"), TPunct(":"), TNewline>>,
      <<TWord("Street"), TWord("view"), TNewline, TNewline>> }

Suffixes == { <<>>, <<TNewline, TWord("Wood"), TWord("floor")>> }

Layouts == {"compact", "lines"}

StructuredPayloads ==
    {[kind |-> "block", entries |-> es, text |-> pre \o RenderBlock(es, lay) \o suf] :
        es \in Strings(EntryPool, MaxEntries), pre \in Prefixes,
        lay \in Layouts, suf \in Suffixes}

\* Blocks that do not decode: a trailing comma, a missing ']', a bare word
\* among the entries, a second array on the line.
Mangled(es) ==
    { <<TPunct("[")>> \o RenderItems(es, 1) \o <<TPunct(","), TPunct("]")>>,
      <<TPunct("[")>> \o RenderItems(es, 1),
      <<TPunct("["), TWord("glass"), TPunct(",")>> \o RenderItems(es, 1) \o <<TPunct("]")>>,
      <<TPunct("["), TNum("7"), TPunct("]"), TWord("and")>> \o Render(PyList(es)) }

MalformedPayloads ==
    UNION {{[kind |-> "malformed", entries |-> es, text |-> t] : t \in Mangled(es)} :
              es \in Strings(EntryPool, 1)}

ProseTokens ==
    {TWord("Glass"), TWord("wood"), TWord("sky"), TWord("The"), TPunct(":"), TNewline}

ProsePayloads ==
    {[kind |-> "prose", entries |-> <<>>, text |-> t] : t \in Strings(ProseTokens, MaxProseLen)}

(***************************************************************************)
(* Images and requests handed to the extractors and to the route.          *)
(***************************************************************************)
MaxWidth == 3       \* widest image enumerated pixel by pixel
MaxK == 6           \* largest ordinary palette size asked for
LargeK == 86        \* a palette size past what the quantizer accepts

PixelColors == {<<0, 0, 0>>, <<255, 255, 255>>, <<100, 150, 200>>}

\* One-row images, every pixel given.
RowImages ==
    {ImageBytes(Len(px), 1, px) : px \in Strings(PixelColors, MaxWidth) \ {<<>>}}

\* Larger images of one colour.
SolidImages ==
    {ImageBytes(d[1], d[2], <<<<100, 150, 200>>>>) : d \in {<<100, 100>>, <<512, 384>>}}

Images == {EmptyBytes, GarbageBytes} \cup RowImages \cup SolidImages

Ks == 0..MaxK \cup {LargeK}

\* The palettes the quantizer may give the resized image (none to give
\* when the bytes do not decode).
Quantized(bytes) == IF Decodable(bytes) THEN PaletteOrders(Resize(bytes)) ELSE {<<>>}

RequestImages ==
    {EmptyBytes, GarbageBytes,
     ImageBytes(100, 100, <<<<100, 150, 200>>>>),
     ImageBytes(1, 1, <<<<255, 255, 255>>>>),
     ImageBytes(2, 1, <<<<0, 0, 0>>, <<100, 150, 200>>>>)}

Files == {NoFile} \cup {File(n, b) : n \in {"", "render.png"}, b \in RequestImages}

Requests ==
    {[too_large |-> t, render |-> f, reference |-> g] : t \in BOOLEAN, f \in Files, g \in Files}

(***************************************************************************)
(* Palettes handed to generate_texture_suggestions.                        *)
(***************************************************************************)
MaxPaletteLen == 8  \* longest palette enumerated

PaletteColors ==
    <<<<"#", "8", "7", "C", "E", "E", "B">>,
      <<"#", "8", "0", "8", "0", "8", "0">>,
      <<"#", "8", "B", "4", "5", "1", "3">>,
      <<"#", "F", "F", "F", "F", "F", "F">>,
      <<"#", "2", "2", "8", "B", "2", "2">>,
      <<"#", "1", "E", "9", "0", "F", "F">>,
      <<"#", "B", "2", "2", "2", "2", "2">>,
      <<"#", "0", "0", "0", "0", "0", "0">>,
      <<"#", "F", "A", "F", "A", "F", "A">>>>

\* n colours of PaletteColors from the r-th on, wrapping around.
Run(r, n) ==
    [i \in 1..n |-> [hex |-> PaletteColors[((r + i - 2) % Len(PaletteColors)) + 1]]]

\* Entries a caller may pass that quick_palette would not produce: a colour
\* that is no hex colour, and a dict without the 'hex' key.
OddEntries ==
    {[hex |-> <<"#", "G", "G", "G", "G", "G", "G">>],
     [hex |-> <<"r", "e", "d">>],
     [name |-> "accent"]}

Palettes ==
    LET runs == {Run(r, n) : r \in 1..Len(PaletteColors), n \in 0..MaxPaletteLen}
    IN  runs \cup {[p EXCEPT ![i] = e] : p \in {q \in runs : Len(q) = 7},
                                         i \in {1, 4, 7}, e \in OddEntries}

(***************************************************************************)
(* Colours and palettes of the callers that run side by side.              *)
(***************************************************************************)
SharedColors ==
    {<<"#", "8", "7", "C", "E", "E", "B">>,     \* glass_blue, a category with a texture
     <<"#", "1", "E", "9", "0", "F", "F">>}     \* sky_blue, a category without

NoColor == <<"r", "e", "d">>

SharedPositions == {50}

\* Every palette of the two colours, and one whose second entry makes the
\* matcher raise after the first was accepted.
SharedPalettes ==
    {[i \in 1..Len(s) |-> [hex |-> s[i]]] : s \in Strings(SharedColors, MaxSharedPalette)}
        \cup {<<[hex |-> <<"#", "8", "7", "C", "E", "E", "B">>], [hex |-> NoColor]>>}

Idle == [raised |-> "none"]

\* The state after the modules are imported.  PIL_OK and trimmed are fixed
\* by the installation.
Init ==
    /\ database = MATERIAL_DATABASE
    /\ PIL_OK \in BOOLEAN
    /\ trimmed \in BOOLEAN
    /\ pc = "idle"
    /\ op = None
    /\ arg = None
    /\ ret = Idle
    /\ frames = [c \in Callers |-> IdleFrame]
    /\ heap = [a \in 1..HeapSize |-> Free]

\* An installation with a current Pillow: the state the colour and parser
\* operations, which never touch Pillow, are explored from.
InitPillow == Init /\ PIL_OK /\ trimmed

Call(name, a, r) ==
    /\ pc' = "done"
    /\ op' = name
    /\ arg' = a
    /\ ret' = r
    /\ UNCHANGED <<database, PIL_OK, trimmed, frames, heap>>

HexToRgb ==
    /\ pc = "idle"
    /\ \E h \in HexInputs : Call("hex_to_rgb", [hex |-> h], hex_to_rgb(h))

\* A caller formats the tuple hex_to_rgb gave it.
RgbToHex ==
    /\ pc = "done" /\ op = "hex_to_rgb" /\ ret.raised = "none"
    /\ op' = "rgb_to_hex"
    /\ arg' = [hex |-> arg.hex, rgb |-> ret.value]
    /\ ret' = [raised |-> "none", value |-> rgb_to_hex(ret.value)]
    /\ UNCHANGED <<database, PIL_OK, trimmed, pc, frames, heap>>

MatchMaterial ==
    /\ pc = "idle"
    /\ \E c \in MatchColors, y \in Positions :
          Call("find_best_material_match", [hex_color |-> c, position_y |-> y],
               find_best_material_match(database, c, y))

ColorDistance ==
    /\ pc = "idle"
    /\ \E a \in MatchColors, b \in MatchColors :
          Call("color_distance", [color1 |-> a, color2 |-> b], color_distance(a, b))

GenerateSuggestions ==
    /\ pc = "idle"
    /\ \E p \in Palettes :
          Call("generate_texture_suggestions", [palette |-> p],
               generate_texture_suggestions(database, p))

\* The caller is done with the outcome.
Return ==
    /\ pc = "done"
    /\ pc' = "idle"
    /\ op' = None
    /\ arg' = None
    /\ ret' = Idle
    /\ UNCHANGED <<database, PIL_OK, trimmed, frames, heap>>

ParseAiResponse ==
    /\ pc = "idle"
    /\ \E p \in StructuredPayloads \cup MalformedPayloads \cup ProsePayloads :
          Call("parse_ai_response", p, parse_ai_response(p.text))

QuickPalette ==
    /\ pc = "idle"
    /\ \E b \in Images, k \in Ks : \E q \in Quantized(b) :
          Call("quick_palette", [img_bytes |-> b, k |-> k, quantized |-> q],
               [raised |-> "none", value |-> quick_palette(PIL_OK, trimmed, b, k, q)])

AnalyzeImageStats ==
    /\ pc = "idle"
    /\ \E b \in Images :
          Call("analyze_image_stats", [image_bytes |-> b], analyze_image_stats(b))

AnalyzeRender ==
    /\ pc = "idle"
    /\ \E req \in Requests :
          \E q \in Quantized(req.render.bytes), r \in Quantized(req.reference.bytes) :
             Call("analyze_render", req,
                  [raised |-> "none",
                   value |-> analyze_render(PIL_OK, trimmed, req, q, r)])

(***************************************************************************)
(* The steps of a caller c of material_db.py.                              *)
(***************************************************************************)
Deref(ref) ==
    IF ref.space = "database" THEN database[ref.at].textures[1] ELSE heap[ref.at]

\* ref[key] = value for every key of items.
Store(ref, items) ==
    IF ref.space = "database"
    THEN /\ database' = [database EXCEPT ![ref.at].textures[1] = items @@ @]
         /\ UNCHANGED heap
    ELSE /\ heap' = [heap EXCEPT ![ref.at] = items @@ @]
         /\ UNCHANGED database

\* The address of the next dict of caller c: the allocator serves each
\* caller from a range of its own, lowest free address first.
Arena(c) == ((c - 1) * (MaxSharedPalette + 1) + 1)..(c * (MaxSharedPalette + 1))

Fresh(c) ==
    CHOOSE a \in Arena(c) : heap[a] = Free /\ \A b \in Arena(c) : b < a => heap[b] # Free

\* The heap without the dicts of refs: nothing refers to them any more.
Release(refs) ==
    [a \in 1..HeapSize |->
        IF \E n \in 1..Len(refs) : refs[n] = HeapRef(a) THEN Free ELSE heap[a]]

Outside == <<PIL_OK, trimmed, pc, op, arg, ret>>

SetFrame(c, frame) == frames' = [frames EXCEPT ![c] = frame]

CallMatch(c) ==
    /\ frames[c].pc = "idle"
    /\ \E h \in SharedColors \cup {NoColor}, y \in SharedPositions :
          SetFrame(c, [IdleFrame EXCEPT !.pc = "scan", !.fn = "find_best_material_match",
                                        !.hex_color = h, !.position_y = y])
    /\ UNCHANGED <<database, heap, Outside>>

CallGenerate(c) ==
    /\ frames[c].pc = "idle"
    /\ \E p \in SharedPalettes :
          SetFrame(c, [IdleFrame EXCEPT
                          !.pc = IF Len(p) = 0 THEN "held" ELSE "loop",
                          !.fn = "generate_texture_suggestions", !.palette = p])
    /\ UNCHANGED <<database, heap, Outside>>

\* for i, color_data in enumerate(palette[:6]): the next entry, or the return.
Loop(c) ==
    /\ frames[c].pc = "loop"
    /\ LET f == frames[c]
       IN  IF f.i >= Len(Take(f.palette, 6))
           THEN SetFrame(c, [f EXCEPT !.pc = "held", !.held = f.suggestions,
                                      !.suggestions = <<>>])
           ELSE SetFrame(c, [f EXCEPT !.pc = "scan",
                                      !.hex_color = EntryHex(f.palette[f.i + 1]),
                                      !.position_y = Slot(f.i).y])
    /\ UNCHANGED <<database, heap, Outside>>

\* The loops over the database; a ValueError ends the call and drops what
\* it had built.
Scan(c) ==
    /\ frames[c].pc = "scan"
    /\ LET f    == frames[c]
           best == BestMatch(database, f.hex_color, f.position_y)
       IN  IF best.raised # "none"
           THEN /\ SetFrame(c, IdleFrame)
                /\ heap' = Release(f.suggestions)
           ELSE /\ SetFrame(c, [f EXCEPT !.pc = "build", !.best_match = best.value])
                /\ UNCHANGED heap
    /\ UNCHANGED <<database, Outside>>

\* texture = best_match['textures'][0].copy(), or the fallback dict.
Build(c) ==
    /\ frames[c].pc = "build"
    /\ LET f == frames[c]
       IN  IF f.best_match # 0 /\ database[f.best_match].textures # <<>>
           THEN LET texture == copy(TextureRef(f.best_match), HeapRef(Fresh(c)))
                IN  /\ SetFrame(c, [f EXCEPT !.pc = "set_hex", !.material = texture])
                    /\ heap' = IF texture.space = "heap"
                               THEN [heap EXCEPT ![texture.at] = Deref(TextureRef(f.best_match))]
                               ELSE heap
           ELSE /\ SetFrame(c, [f EXCEPT !.pc = "return", !.material = HeapRef(Fresh(c))])
                /\ heap' = [heap EXCEPT ![Fresh(c)] =
                                FallbackDict(database, f.best_match, f.hex_color)]
    /\ UNCHANGED <<database, Outside>>

\* texture['hex'] = hex_color
SetHex(c) ==
    /\ frames[c].pc = "set_hex"
    /\ Store(frames[c].material, [hex |-> frames[c].hex_color])
    /\ SetFrame(c, [frames[c] EXCEPT !.pc = "set_category"])
    /\ UNCHANGED Outside

\* texture['category'] = best_category
SetCategory(c) ==
    /\ frames[c].pc = "set_category"
    /\ Store(frames[c].material, [category |-> database[frames[c].best_match].key])
    /\ SetFrame(c, [frames[c] EXCEPT !.pc = "return"])
    /\ UNCHANGED Outside

\* find_best_material_match returns: to its caller, or into the loop.
ReturnMatch(c) ==
    /\ frames[c].pc = "return"
    /\ LET f == frames[c]
       IN  IF f.fn = "find_best_material_match"
           THEN SetFrame(c, [f EXCEPT !.pc = "held", !.held = <<f.material>>,
                                      !.material = NoRef])
           ELSE SetFrame(c, [f EXCEPT !.pc = "set_xy"])
    /\ UNCHANGED <<database, heap, Outside>>

\* material['x'] = x; material['y'] = y; suggestions.append(material)
SetPosition(c) ==
    /\ frames[c].pc = "set_xy"
    /\ LET f == frames[c]
       IN  /\ Store(f.material, [x |-> Slot(f.i).x, y |-> Slot(f.i).y])
           /\ SetFrame(c, [f EXCEPT !.pc = "loop", !.i = f.i + 1, !.material = NoRef,
                                    !.suggestions = Append(f.suggestions, f.material)])
    /\ UNCHANGED Outside

\* The caller writes x, y, hex and category into a result it received.
CallerWrite(c) ==
    /\ frames[c].pc = "held"
    /\ \E n \in 1..Len(frames[c].held) :
          Store(frames[c].held[n],
                [x |-> 100 - c, y |-> c, hex |-> <<"#", "0", "0">>, category |-> "edited"])
    /\ UNCHANGED <<frames, Outside>>

\* The caller lets go of the results.
Drop(c) ==
    /\ frames[c].pc = "held"
    /\ SetFrame(c, IdleFrame)
    /\ heap' = Release(frames[c].held)
    /\ UNCHANGED <<database, Outside>>

CallerStep(c) ==
    \/ CallMatch(c)
    \/ CallGenerate(c)
    \/ Loop(c)
    \/ Scan(c)
    \/ Build(c)
    \/ SetHex(c)
    \/ SetCategory(c)
    \/ ReturnMatch(c)
    \/ SetPosition(c)
    \/ CallerWrite(c)
    \/ Drop(c)

(***************************************************************************)
(* Inputs of analyze_image_with_ai and the answers of the API.             *)
(***************************************************************************)
NotBytes == [kind |-> "text"]

VisionImages == {EmptyBytes, ImageBytes(1, 1, <<<<255, 255, 255>>>>), NotBytes}

ApiKeys == {None, "", "sk-or-argument"}

Environs == {None, "", "sk-or-environment"}

NoResponse == [kind |-> "none"]

Chat(message) == PyDict(<<"choices">>, <<PyList(<<PyDict(<<"message">>, <<message>>)>>)>>)

Contents ==
    { PyText(Render(PyList(<<PyDict(<<"type">>, <<PyStr("SKY")>>)>>))),
      PyText(Render(PyList(<<PyDict(<<"type">>, <<PyInt(5)>>)>>))),
      PyText(Render(PyList(<<WoodWith("x", PyNone)>>))),
      PyText(<<TWord("Large"), TWord("glass"), TWord("facade")>>),
      PyText(<<>>),
      PyNone }

\* response.json(): the decoded body, or the error of a body that is not JSON.
NotJson ==
    [raised |-> "JSONDecodeError", text |-> "Expecting value: line 1 column 1 (char 0)"]

JsonBodies ==
    {NotJson}
    \cup {[raised |-> "none", value |-> v] :
            v \in { PyDict(<<"error">>, <<PyStr("rate limited")>>),
                    PyList(<<>>),
                    PyDict(<<"choices">>, <<PyList(<<>>)>>),
                    PyDict(<<"choices">>, <<PyNone>>),
                    Chat(PyDict(<<"role">>, <<PyStr("assistant")>>)) }
                  \cup {Chat(PyDict(<<"content">>, <<c>>)) : c \in Contents} }

StatusCodes == {200, 401, 429, 500}

Responses ==
    {[kind |-> "raise", error |-> e] : e \in {"ConnectTimeout", "ConnectionError"}}
    \cup {[kind |-> "response", status_code |-> 200, json |-> b] : b \in JsonBodies}
    \cup {[kind |-> "response", status_code |-> s, json |-> NotJson] :
            s \in StatusCodes \ {200}}

\* analyze_image_with_ai up to requests.post: the call returns at once, or
\* its request is in flight (pc = "posting").
AnalyzeImageWithAi ==
    /\ pc = "idle"
    /\ \E b \in VisionImages, k \in ApiKeys, e \in Environs :
          LET a     == [image_bytes |-> b, api_key |-> k, environ |-> e,
                        response |-> NoResponse]
              early == BeforePost(b, k, e)
          IN  IF early.exit = "return"
              THEN Call("analyze_image_with_ai", a,
                        [raised |-> "none", value |-> early.value])
              ELSE /\ pc' = "posting"
                   /\ op' = "analyze_image_with_ai"
                   /\ arg' = a
                   /\ ret' = Idle
                   /\ UNCHANGED <<database, PIL_OK, trimmed, frames, heap>>

\* requests.post returns or raises (timeout=30), and the call runs to its
\* end.
Respond ==
    /\ pc = "posting"
    /\ \E r \in Responses :
          Call(op, [arg EXCEPT !.response = r], AfterPost(r))

\* material_db.py and the colour helper of app.py.
NextColor ==
    \/ HexToRgb
    \/ RgbToHex
    \/ MatchMaterial
    \/ ColorDistance
    \/ GenerateSuggestions
    \/ Return

SpecColor == InitPillow /\ [][NextColor]_vars

\* ai_vision.py.
NextParse ==
    \/ ParseAiResponse
    \/ Return

SpecParse == InitPillow /\ [][NextParse]_vars

\* app.py and image_stats.py, under either Pillow install and without one.
NextImage ==
    \/ QuickPalette
    \/ AnalyzeImageStats
    \/ AnalyzeRender
    \/ Return

SpecImage == Init /\ [][NextImage]_vars

\* material_db.py with callers side by side.
NextShared == \E c \in Callers : CallerStep(c)

SpecShared == InitPillow /\ [][NextShared]_vars

\* ai_vision.py, one call at a time and the API answering it.
NextVision ==
    \/ AnalyzeImageWithAi
    \/ Respond
    \/ Return

SpecVision == InitPillow /\ [][NextVision]_vars

(***************************************************************************)
(* Properties.                                                             *)
(***************************************************************************)
Done(name) == pc = "done" /\ op = name

CategoryKeys == {database[i].key : i \in 1..Len(database)}

SkyReference == <<"#", "8", "7", "C", "E", "E", "B">>

\* A string that is exactly six hexadecimal digits once one optional
\* leading '#' is removed.
WellFormedHex(h) ==
    LET body == IF h # <<>> /\ Head(h) = "#" THEN Tail(h) ELSE h
    IN  Len(body) = 6 /\ \A i \in 1..6 : body[i] \in HexDigits

\* C1: every call of find_best_material_match returns without raising and
\* the category of its result is a key of the knowledge base.
C1_MatchNeverFails ==
    Done("find_best_material_match") =>
        /\ ret.raised = "none"
        /\ ret.value.category \in CategoryKeys

\* C2 as stated: the colour #87CEEB at vertical position 0.1 is matched to
\* sky_blue.
C2_SkyPreferredAtTop ==
    (Done("find_best_material_match")
        /\ arg.hex_color = SkyReference /\ arg.position_y = 10)
    => (ret.raised = "none" /\ ret.value.category = "sky_blue")

\* C2 amended: the colour #87CEEB at vertical position 0.1 is matched to
\* glass_blue: both categories have biased distance 0 (0 * 0.7 = 0) and the
\* category declared first keeps the tie.
C2_GlassKeepsTheTie ==
    (Done("find_best_material_match")
        /\ arg.hex_color = SkyReference /\ arg.position_y = 10)
    => (ret.raised = "none" /\ ret.value.category = "glass_blue")

C2_Witness ==
    /\ Done("find_best_material_match")
    /\ arg.hex_color = SkyReference /\ arg.position_y = 10
    /\ ret.raised = "none"
    /\ ret.value.name = "Blue Glass Facade"

\* C7: hex_to_rgb raises exactly for the strings that are not six
\* hexadecimal digits behind one optional '#'.
C7_RejectsIllFormed ==
    Done("hex_to_rgb") => (ret.raised = "none" <=> WellFormedHex(arg.hex))

\* C8 as stated: formatting the tuple parsed from a well-formed h gives h
\* back up to letter case, and every channel is in 0..255.
C8_RoundTripUpToCase ==
    (Done("rgb_to_hex") /\ WellFormedHex(arg.hex)) =>
        /\ LowerStr(ret.value) = LowerStr(arg.hex)
        /\ \A i \in 1..3 : arg.rgb[i] \in 0..255

\* C8 amended: formatting the tuple parsed from a well-formed h gives '#'
\* followed by the six digits of h in lower case (h itself up to case only
\* when h carries the leading '#'), and every channel is in 0..255.
C8_RoundTripCanonical ==
    (Done("rgb_to_hex") /\ WellFormedHex(arg.hex)) =>
        /\ ret.value = <<"#">> \o LowerStr(LStrip(arg.hex, "#"))
        /\ \A i \in 1..3 : arg.rgb[i] \in 0..255

C8_Witness ==
    /\ Done("rgb_to_hex")
    /\ arg.hex = <<"#", "a", "F", "a", "F", "F", "a">>
    /\ arg.rgb = <<175, 175, 250>>
    /\ ret.value = <<"#", "a", "f", "a", "f", "f", "a">>

\* Some token of the text holds one of the parser's material keywords.
TextHasKeyword(text) ==
    \E i \in 1..Len(text) : KeywordsIn(LowerText(text[i].v)) # {}

ScanTypes == {"glass", "concrete", "wood", "metal", "brick", "grass", "asphalt", "sky"}

\* C3 as stated: for prose without a structured block parse_ai_response
\* returns no materials, whatever words the prose holds.
C3_ProseGivesNoMaterials ==
    (Done("parse_ai_response") /\ arg.kind = "prose") =>
        (ret.raised = "none" /\ ret.value = <<>>)

\* C3 amended: for prose without a structured block parse_ai_response
\* returns, without raising, the materials its keyword scan finds: none
\* exactly when no token holds a material keyword, and otherwise materials
\* whose type is one of the scan's types, at position (50, 50) and with
\* colour #808080.
C3_ProseGivesKeywordMaterials ==
    (Done("parse_ai_response") /\ arg.kind = "prose") =>
        /\ ret.raised = "none"
        /\ (ret.value = <<>>) <=> ~TextHasKeyword(arg.text)
        /\ \A i \in 1..Len(ret.value) :
              /\ ret.value[i].type \in ScanTypes
              /\ ret.value[i].x = 50 /\ ret.value[i].y = 50
              /\ ret.value[i].color = PyStr("#808080")

C3_Witness ==
    /\ Done("parse_ai_response") /\ arg.kind = "prose"
    /\ arg.text = <<TWord("The"), TWord("Glass"), TNewline, TWord("sky")>>
    /\ Len(ret.value) = 1 /\ ret.value[1].type = "sky"

\* C4: parse_ai_response returns a value, and raises nothing, for every
\* text it is given.
C4_ParseNeverRaises ==
    Done("parse_ai_response") => ret.raised = "none"

\* The entries a structured block contributes: the dictionaries with a
\* 'type' key, each with its defaults filled in.
IsKept(e) == e.t = "dict" /\ DictHas(e, "type")

KeptEntries(entries) == SelectSeq(entries, IsKept)

WellFormedEntry(e) ==
    /\ DictGet(e, "type", PyNone).t = "str"
    /\ PyIntOf(DictGet(e, "x", PyInt(50))).raised = "none"
    /\ PyIntOf(DictGet(e, "y", PyInt(50))).raised = "none"

WellFormedBlock(entries) ==
    \A i \in 1..Len(entries) : IsKept(entries[i]) => WellFormedEntry(entries[i])

ExpectedMaterial(e) ==
    [name  |-> IF DictHas(e, "name") THEN DictGet(e, "name", PyNone)
               ELSE PyStr("Unknown Material"),
     type  |-> LowerText(DictGet(e, "type", PyNone).v),
     x     |-> IF DictHas(e, "x") THEN PyIntOf(DictGet(e, "x", PyNone)).value ELSE 50,
     y     |-> IF DictHas(e, "y") THEN PyIntOf(DictGet(e, "y", PyNone)).value ELSE 50,
     color |-> IF DictHas(e, "color") THEN DictGet(e, "color", PyNone)
               ELSE PyStr("#808080")]

ExpectedMaterials(entries) ==
    LET kept == KeptEntries(entries)
    IN  [i \in 1..Len(kept) |-> ExpectedMaterial(kept[i])]

\* C5 as stated: for a well-formed structured block the materials are
\* exactly its dictionary entries that have a 'type', in order, with the
\* defaults filled in; the other entries are dropped without error.
C5_MaterialsAreKeptEntries ==
    (Done("parse_ai_response") /\ arg.kind = "block" /\ WellFormedBlock(arg.entries)) =>
        /\ ret.raised = "none"
        /\ ret.value = ExpectedMaterials(arg.entries)

\* C5 amended: that holds when at least one entry is kept; when none is,
\* the result is the keyword scan of the whole text, which is empty only
\* if no token of the text holds a material keyword.
C5_KeptEntriesOrKeywordScan ==
    (Done("parse_ai_response") /\ arg.kind = "block" /\ WellFormedBlock(arg.entries)) =>
        /\ ret.raised = "none"
        /\ KeptEntries(arg.entries) # <<>> => ret.value = ExpectedMaterials(arg.entries)
        /\ KeptEntries(arg.entries) = <<>> =>
              ((ret.value = <<>>) <=> ~TextHasKeyword(arg.text))

C5_Witness ==
    /\ Done("parse_ai_response") /\ arg.kind = "block"
    /\ arg.entries = <<PyDict(<<"name">>, <<PyStr("Glass Wall")>>),
                       PyDict(<<"type">>, <<PyStr("SKY")>>)>>
    /\ ret.raised = "none"
    /\ ret.value = <<[name  |-> PyStr("Unknown Material"), type |-> "sky",
                      x |-> 50, y |-> 50, color |-> PyStr("#808080")]>>

\* C6: a render of one solid colour posted to analyze_render is answered
\* with an analysis whose contrast_std is below 1.0.
C6_SolidRenderHasNoContrast ==
    (Done("analyze_render") /\ ~arg.too_large /\ FilePresent(arg.render)
        /\ Decodable(arg.render.bytes) /\ IsSolid(arg.render.bytes))
    => (ret.value.status = 200 /\ ret.value.body.analysis.contrast_std < 10)

\* C9: for every image input and every count k, quick_palette returns at
\* most k entries, no two with the same hex, whether the palette comes from
\* the quantizer or from the fallback list.
C9_PaletteShortAndDistinct ==
    Done("quick_palette") =>
        /\ ret.raised = "none"
        /\ Len(ret.value) <= arg.k
        /\ \A i, j \in 1..Len(ret.value) :
              ret.value[i].hex = ret.value[j].hex => i = j

\* The quantizer path with a repeat to drop: black is a colour of the image
\* and the colour of the padding entries of the palette.
C9_Witness ==
    /\ Done("quick_palette")
    /\ PIL_OK /\ ~trimmed
    /\ Decodable(arg.img_bytes)
    /\ <<0, 0, 0>> \in ColorsOf(arg.img_bytes)
    /\ arg.k = 3
    /\ ret.value = <<[hex |-> <<"#", "0", "0", "0", "0", "0", "0">>]>>

\* C10: on bytes that do not decode, and on a decoded image whose
\* processing fails (fewer than 6 colours under a Pillow that trims the
\* palette), quick_palette with k = 6 returns the five fallback colours; on bytes that do not decode analyze_image_stats returns the
\* default record; neither raises.
C10_FailureGivesFixedValues ==
    /\ (Done("quick_palette") /\ arg.k = 6
            /\ (~Decodable(arg.img_bytes)
                   \/ (PIL_OK /\ trimmed /\ Cardinality(ColorsOf(arg.img_bytes)) < 6))) =>
          ret = [raised |-> "none",
                 value  |-> <<[hex |-> <<"#", "1", "e", "2", "9", "3", "b">>],
                              [hex |-> <<"#", "9", "4", "a", "3", "b", "8">>],
                              [hex |-> <<"#", "3", "8", "b", "d", "f", "8">>],
                              [hex |-> <<"#", "f", "5", "9", "e", "0", "b">>],
                              [hex |-> <<"#", "1", "0", "b", "9", "8", "1">>]>>]
    /\ (Done("analyze_image_stats") /\ ~Decodable(arg.image_bytes)) =>
          ret = [raised |-> "none",
                 value  |-> [exposure_mean |-> 1280, contrast_std |-> 500,
                             noise_level |-> 100, saturation_pct |-> 500,
                             sharpness_laplacian_var |-> 500,
                             wb_shift_blue_minus_red |-> 0]]

C10_Witness ==
    /\ Done("quick_palette")
    /\ PIL_OK
    /\ arg.img_bytes = GarbageBytes
    /\ arg.k = 6
    /\ Len(ret.value) = 5

\* C11: generate_texture_suggestions returns nothing for an empty palette
\* and otherwise min(6, palette length) observations in palette order, the
\* i-th with the i-th entry's hex colour and the i-th slot of the layout
\* (30,20), (50,50), (30,75), (70,30), (70,60), (50,80).
C11_SuggestionsFollowPalette ==
    Done("generate_texture_suggestions") =>
        /\ ret.raised = "none"
        /\ Len(ret.value) = Min(6, Len(arg.palette))
        /\ \A i \in 1..Len(ret.value) :
              /\ ret.value[i].hex = EntryHex(arg.palette[i])
              /\ <<ret.value[i].x, ret.value[i].y>>
                    = <<<<30, 20>>, <<50, 50>>, <<30, 75>>, <<70, 30>>, <<70, 60>>, <<50, 80>>>>[i]

\* The results a caller holds, as the dicts they are now.
HeldDicts(c) == [n \in 1..Len(frames[c].held) |-> Deref(frames[c].held[n])]

\* A step of caller d: it moves d's call, or it is a write of d.
StepOf(d) == frames'[d] # frames[d] \/ CallerWrite(d)

\* Every reference a caller has to a result.
ResultRefs(c) ==
    {frames[c].suggestions[n] : n \in 1..Len(frames[c].suggestions)}
        \cup {frames[c].held[n] : n \in 1..Len(frames[c].held)}
        \cup ({frames[c].material} \ {NoRef})

\* C12: whatever the callers of find_best_material_match and
\* generate_texture_suggestions do, and however their steps interleave, the
\* database keeps its initial value, no result is a dict of the database or
\* a dict another caller has, and a step of one caller leaves the results
\* another caller holds as they were.
C12_KnowledgeBaseUntouched ==
    /\ [](/\ database = MATERIAL_DATABASE
          /\ \A c \in Callers : \A r \in ResultRefs(c) : r.space = "heap"
          /\ \A c, d \in Callers : c # d => ResultRefs(c) \cap ResultRefs(d) = {}
          /\ \A c \in Callers : \A i, j \in 1..Len(frames[c].held) :
                frames[c].held[i] = frames[c].held[j] => i = j)
    /\ [][\A c, d \in Callers :
             (c # d /\ StepOf(d)) => HeldDicts(c)' = HeldDicts(c)]_vars

\* Both callers hold a result for the same colour, copied from the same
\* texture of the database, and only the first has written into its own.
C12_Witness ==
    /\ frames[1].pc = "held" /\ Len(frames[1].held) = 2
    /\ frames[2].pc = "held" /\ Len(frames[2].held) = 1
    /\ Deref(frames[1].held[2]).name = "Blue Glass Facade"
    /\ Deref(frames[1].held[2]).category = "edited"
    /\ Deref(frames[2].held[1]).name = "Blue Glass Facade"
    /\ Deref(frames[2].held[1]).category = "glass_blue"

\* C13 as stated: analyze_render answers 400 with an error exactly when the
\* request has no 'render' file, and 200 with an analysis whenever it has
\* one.
C13_MissingRenderOnly ==
    Done("analyze_render") =>
        IF arg.render.kind = "absent"
        THEN ret.value.status = 400 /\ "error" \in DOMAIN ret.value.body
        ELSE ret.value.status = 200 /\ "analysis" \in DOMAIN ret.value.body

\* C13 amended: a request over MAX_CONTENT_LENGTH is answered 413; any
\* other request is answered 400 with an error exactly when the 'render'
\* field is absent or its file has an empty filename, and otherwise 200
\* with an analysis, whatever the bytes and whatever the reference.
C13_StatusByRequest ==
    Done("analyze_render") =>
        /\ ret.raised = "none"
        /\ IF arg.too_large
           THEN ret.value.status = 413
           ELSE IF arg.render.kind = "absent" \/ arg.render.filename = ""
           THEN ret.value.status = 400 /\ "error" \in DOMAIN ret.value.body
           ELSE ret.value.status = 200 /\ "analysis" \in DOMAIN ret.value.body

\* A named render file whose bytes do not decode, and no reference.
C13_Witness ==
    /\ Done("analyze_render")
    /\ ~arg.too_large
    /\ arg.render = File("render.png", GarbageBytes)
    /\ arg.reference = NoFile
    /\ ret.value.status = 200
    /\ ret.value.body.analysis_ref = <<>>

\* C14: for hex colours a and b, color_distance(a, a) is 0,
\* color_distance(a, b) equals color_distance(b, a), and no distance is
\* negative.  (The value kept is 512 times the square of the distance.)
C14_DistanceSymmetric ==
    (Done("color_distance") /\ WellFormedHex(arg.color1) /\ WellFormedHex(arg.color2)) =>
        /\ ret.raised = "none"
        /\ ret.value >= 0
        /\ ret = color_distance(arg.color2, arg.color1)
        /\ arg.color1 = arg.color2 => ret.value = 0

\* Two colours with different reds, a pair whose weights depend on both.
C14_Witness ==
    /\ Done("color_distance")
    /\ arg.color1 = <<"#", "8", "B", "4", "5", "1", "3">>
    /\ arg.color2 = <<"#", "1", "E", "9", "0", "F", "F">>
    /\ ret.value > 0
    /\ ret = color_distance(arg.color2, arg.color1)

\* The biased distances of the catalog pairs to the colour of the call, in
\* declaration order.
CallDistances ==
    LET pairs == CatalogPairs(database, 1)
        rgb   == hex_to_rgb(arg.hex_color).value
    IN  [n \in 1..Len(pairs) |-> PairDistance(database, pairs[n], rgb, arg.position_y)]

Below(a, b) == a.hi < b.hi \/ (a.hi = b.hi /\ a.lo < b.lo)

\* The first pair, in declaration order, that no pair is strictly below.
FirstMinimum(dist) ==
    CHOOSE n \in 1..Len(dist) :
        /\ \A k \in 1..Len(dist) : ~Below(dist[k], dist[n])
        /\ \A k \in 1..(n - 1) : Below(dist[n], dist[k])

\* C15: for a colour the distance is defined for, find_best_material_match
\* returns the category of the pair with the least biased distance over the
\* whole catalog, and of the first declared among pairs that share it.
C15_FirstMinimumWins ==
    (Done("find_best_material_match") /\ hex_to_rgb(arg.hex_color).raised = "none") =>
        /\ ret.raised = "none"
        /\ ret.value.category
              = database[CatalogPairs(database, 1)[FirstMinimum(CallDistances)].cat].key

\* A tie in the middle band: #87CEEB is a reference colour of glass_blue
\* and of sky_blue, both at distance 0, and glass_blue is declared first.
C15_Witness ==
    /\ Done("find_best_material_match")
    /\ arg.hex_color = SkyReference /\ arg.position_y = 50
    /\ database[CatalogPairs(database, 1)[28].cat].key = "sky_blue"
    /\ CallDistances[1] = CallDistances[28]
    /\ FirstMinimum(CallDistances) = 1
    /\ ret.value.category = "glass_blue"

\* The band of a position (in hundredths) and the multiplier (in tenths)
\* the claim gives a category in it.
Band(position_y) ==
    IF position_y < 30 THEN "top" ELSE IF position_y > 70 THEN "bottom" ELSE "middle"

ClaimedMultiplier(category, position_y) ==
    CASE Band(position_y) = "top" /\ category \in {"sky_blue", "plaster_white"} -> 7
      [] Band(position_y) = "bottom"
            /\ category \in {"grass_green", "wood_brown", "concrete_gray"} -> 7
      [] Band(position_y) = "middle"
            /\ category \in {"glass_blue", "concrete_gray", "brick_red"} -> 8
      [] OTHER -> 10

ClaimedDistances ==
    LET pairs == CatalogPairs(database, 1)
        rgb   == hex_to_rgb(arg.hex_color).value
    IN  [n \in 1..Len(pairs) |->
            Biased(DistSq512(rgb, hex_to_rgb(pairs[n].ref_color).value),
                   ClaimedMultiplier(database[pairs[n].cat].key, arg.position_y))]

\* C16: at every position in [0, 1] the distance of every pair is its
\* colour distance times 0.7 for sky and plaster below 0.3, 0.7 for grass,
\* wood and concrete above 0.7, 0.8 for glass, concrete and brick from 0.3
\* to 0.7 inclusive, and 1.0 otherwise; every pair of every category takes
\* part, and the match is the first minimum of these distances.
C16_BandsAndMultipliers ==
    (Done("find_best_material_match") /\ hex_to_rgb(arg.hex_color).raised = "none") =>
        /\ CallDistances = ClaimedDistances
        /\ {CatalogPairs(database, 1)[n].cat : n \in DOMAIN CallDistances}
              = 1..Len(database)
        /\ ret.raised = "none"
        /\ ret.value.category
              = database[CatalogPairs(database, 1)[FirstMinimum(ClaimedDistances)].cat].key

\* The boundary 0.3: glass_blue has the middle multiplier 0.8, sky_blue has
\* none, and the sky colour #1E90FF is matched to sky_blue at distance 0.
C16_Witness ==
    /\ Done("find_best_material_match")
    /\ arg.position_y = 30
    /\ arg.hex_color = <<"#", "1", "E", "9", "0", "F", "F">>
    /\ PositionBias("glass_blue", arg.position_y) = 8
    /\ PositionBias("sky_blue", arg.position_y) = 10
    /\ ret.value.category = "sky_blue"

\* C17: before quantization quick_palette brings an image of width w and
\* height h to dimensions that are each at most 256 and in the ratio w : h
\* (to within the rounding of one pixel), and leaves an image already
\* within 256 x 256 at its dimensions.
C17_ResizeKeepsAspect ==
    (Done("quick_palette") /\ PIL_OK /\ Decodable(arg.img_bytes)) =>
        LET im      == arg.img_bytes
            resized == Resize(im)
        IN  /\ resized.w <= 256 /\ resized.h <= 256
            /\ Abs(resized.w * im.h - resized.h * im.w) <= Max(im.w, im.h)
            /\ (im.w <= 256 /\ im.h <= 256) => (resized.w = im.w /\ resized.h = im.h)

\* The entries appended before a ValueError ended the structured decoding of
\* a block, and the materials the text scan alone gives its text.
AcceptedBeforeFailure(entries) ==
    LET done == NormalizeEntries(entries, 1, <<>>)
    IN  IF done.raised = "ValueError" THEN done.materials ELSE <<>>

FallbackOnly(text) == ScanLines(SplitLines(text, 1, <<>>), 1, <<>>, NoMaterial)

\* C18: when an entry of a structured block raises a value error after
\* earlier entries were accepted, the materials returned are those of the
\* text scan alone; no entry accepted before the failure is among them.
C18_FailureDiscardsAccepted ==
    (Done("parse_ai_response") /\ arg.kind = "block"
        /\ AcceptedBeforeFailure(arg.entries) # <<>>) =>
        /\ ret.raised = "none"
        /\ ret.value = FallbackOnly(arg.text)
        /\ \A i \in 1..Len(ret.value), j \in 1..Len(AcceptedBeforeFailure(arg.entries)) :
              ret.value[i] # AcceptedBeforeFailure(arg.entries)[j]

\* The number of pixels of the resized image that have the quantized colour
\* printed as hx (0 when no quantized colour prints so).
HexCount(im, palette, hx) ==
    Sum([n \in 1..Len(palette) |->
            IF rgb_to_hex(palette[n]) = hx THEN PixelCount(im, palette[n]) ELSE 0])

\* C19: for an image that decodes, every colour quick_palette returns is a
\* quantized colour some pixel of the image has, the colours are listed by
\* non-increasing pixel count, and with fewer than k such colours the
\* output holds just those: it is neither filled with palette entries no
\* pixel uses nor replaced by the fallback palette.
C19_OnlyColoursInUse ==
    (Done("quick_palette") /\ PIL_OK /\ Decodable(arg.img_bytes) /\ arg.k <= MaxK) =>
        LET im == Resize(arg.img_bytes)
            n  == Len(ret.value)
        IN  /\ \A i \in 1..n : HexCount(im, arg.quantized, ret.value[i].hex) > 0
            /\ \A i, j \in 1..n :
                  i < j => HexCount(im, arg.quantized, ret.value[i].hex)
                              >= HexCount(im, arg.quantized, ret.value[j].hex)
            /\ n = Min(arg.k, Len(arg.quantized))

\* The two outcomes of analyze_image_with_ai.
IsSuccess(result) ==
    /\ DOMAIN result = {"success", "materials", "raw_response"}
    /\ result.success = TRUE

IsFailure(result) ==
    /\ "error" \in DOMAIN result
    /\ result.materials = <<>>

HasKey(a) == Truthy(a.api_key) \/ Truthy(a.environ)

\* C20: analyze_image_with_ai never raises and ends either in success
\* (success true, no error field, the materials parse_ai_response gives the
\* content of the response) or in failure (an error field and empty
\* materials), never both; without an API key in the argument or the
\* environment it fails and no request is ever in flight; an exception of
\* the request, a status other than 200, a body without the content and an
\* exception of the parser all end in failure.
C20_SuccessOrFailure ==
    /\ (pc = "posting") => HasKey(arg)
    /\ Done("analyze_image_with_ai") =>
          /\ ret.raised = "none"
          /\ IsSuccess(ret.value) # IsFailure(ret.value)
          /\ IsSuccess(ret.value) =>
                /\ arg.response.kind = "response"
                /\ arg.response.status_code = 200
                /\ ret.value.materials
                      = parse_ai_response(ret.value.raw_response.toks).value
          /\ ~HasKey(arg) => (IsFailure(ret.value) /\ arg.response = NoResponse)
          /\ arg.response.kind = "raise" => IsFailure(ret.value)
          /\ (arg.response.kind = "response" /\ arg.response.status_code # 200)
                => IsFailure(ret.value)
          /\ (arg.response.kind = "response" /\ arg.response.json.raised # "none")
                => IsFailure(ret.value)
          /\ (arg.response.kind = "response" /\ arg.response.status_code = 200
                /\ arg.response.json.raised = "none"
                /\ ContentOf(arg.response.json.value).raised = "none"
                /\ ContentOf(arg.response.json.value).value.t = "str"
                /\ parse_ai_response(ContentOf(arg.response.json.value).value.toks).raised
                      # "none")
                => IsFailure(ret.value)

\* The key comes from the environment, the API answers 200 with a content
\* whose entry has the type 5: the parser raises AttributeError and the
\* call ends in failure.
C20_Witness ==
    /\ Done("analyze_image_with_ai")
    /\ ~Truthy(arg.api_key) /\ Truthy(arg.environ)
    /\ arg.response.kind = "response" /\ arg.response.status_code = 200
    /\ arg.response.json.raised = "none"
    /\ ContentOf(arg.response.json.value).raised = "none"
    /\ ContentOf(arg.response.json.value).value
          = PyText(Render(PyList(<<PyDict(<<"type">>, <<PyInt(5)>>)>>)))
    /\ ret = [raised |-> "none",
              value  |-> Failure("'int' object has no attribute 'lower'")]

====
